---- MODULE Spec2Model ----
(***************************************************************************)
(* Model of the report generator for public-works projects:                *)
(*   - the locale numeric formatter   (src/src/processors/formatters.py)   *)
(*   - the financial derivations      (src/src/processors/calculations.py) *)
(*   - the payment index, the context assembler and the document emitter   *)
(*                                    (src/src/pdf/generator.py)           *)
(*   - the batch driver               (src/scripts/run.py)                 *)
(*                                                                         *)
(* Text is a sequence of one-character strings.  A Python number is a      *)
(* decimal fixed-point integer counting units of 1/Scale; every input of   *)
(* the model is exactly representable, and TLC stops with an error on any  *)
(* arithmetic that leaves the representable range.  Ties of the binary     *)
(* float formatting are resolved half-to-even on the exact decimal value.  *)
(***************************************************************************)
EXTENDS Integers, Sequences, FiniteSets, TLC

VARIABLES
    cFn,            \* calculator harness: the derivation last applied ("none" before)
    cA,             \* calculator harness: first operand
    cB,             \* calculator harness: second operand
    cRes,           \* calculator harness: outcome of the derivation
    df_excel,       \* main(): the projects sheet as read
    df_sheets,      \* main(): the collaborative-sheet feed as read
    pc,             \* main(): position of the batch run
    obras,          \* main(): df_combined, the reconciled rows
    pagos_df,       \* main(): df_pagos, the payments table
    filter_prefix,  \* main(): args.filter
    bf,             \* main(): number of rows the backfill loop has finished
    obras_procesadas, \* main(): the backfilled records
    pagos_por_obra, \* PDFGenerator: the payment index
    resources,      \* main(), PDFGenerator: the resource bundle
    sel,            \* generate_all: positions (in obras) of the selected rows
    it,             \* generate_all: number of selected rows the loop has finished
    success_count,  \* generate_all
    error_count,    \* generate_all
    html,           \* generate_all: the local html (0 = unbound, else the row it was rendered for)
    debug_files,    \* generate_all: the error_<idx>.html files written
    pdf_files,      \* generate_pdf: the PDF files written
    log             \* observation: per attempted row, what happened to it

calcVars == <<cFn, cA, cB, cRes>>
runVars == <<pc, obras, pagos_df, filter_prefix, bf, obras_procesadas,
             pagos_por_obra, resources, sel, it, success_count, error_count, html,
             debug_files, pdf_files, log>>
mergeVars == <<df_excel, df_sheets>>
vars == <<cFn, cA, cB, cRes, df_excel, df_sheets, pc, obras, pagos_df, filter_prefix, bf,
          obras_procesadas, pagos_por_obra, resources, sel, it, success_count,
          error_count, html, debug_files, pdf_files, log>>

-----------------------------------------------------------------------------
(* Bounds of the model *)

\* longest text enumerated exhaustively over Alphabet
MaxLen == 3
\* numeric operands range over -MaxQuarter/4 .. MaxQuarter/4 in steps of 1/4
MaxQuarter == 6
\* most rows of the projects table
MaxRecords == 2

\* rows of a payments table
MaxPagos == 3
MaxFeed == 2

\* columns of a payments sheet
MaxCols == 3

\* units per 1: three decimal digits
Scale == 10 ^ 3

-----------------------------------------------------------------------------
(* Python values *)

\* A number x is held as x = (v * Scale + r) / Scale^2 with 0 <= r < Scale:
\* v counts 1/Scale units, r is the finer remainder only a product can have.
None == [t |-> "none", v |-> 0, r |-> 0, s |-> <<>>]
NaN == [t |-> "nan", v |-> 0, r |-> 0, s |-> <<>>]
NumR(n, rem) == [t |-> "num", v |-> n, r |-> rem, s |-> <<>>]
Num(n) == NumR(n, 0)
Str(chars) == [t |-> "str", v |-> 0, r |-> 0, s |-> chars]

IsStr(x) == x.t = "str"

\* the empty sentinel "--"
DASHES == <<"-", "-">>

\* outcome of a call: a returned text, or an exception leaving the call
Ret(chars) == [raised |-> FALSE, exc |-> "", val |-> chars]
Raise(e) == [raised |-> TRUE, exc |-> e, val |-> <<>>]

-----------------------------------------------------------------------------
(* Text primitives *)

DigitChars == <<"0", "1", "2", "3", "4", "5", "6", "7", "8", "9">>

IsDigit(c) == \E d \in 1..10 : DigitChars[d] = c

DigitVal(c) == (CHOOSE d \in 1..10 : DigitChars[d] = c) - 1

\* str.replace(old, new) for a one-character old and a new of length 0 or 1
RECURSIVE Replace(_, _, _)
Replace(chars, old, new) ==
    IF chars = <<>> THEN <<>>
    ELSE (IF Head(chars) = old THEN new ELSE <<Head(chars)>>)
         \o Replace(Tail(chars), old, new)

\* decimal digits of a natural number
RECURSIVE Digits(_)
Digits(n) ==
    IF n < 10 THEN <<DigitChars[n + 1]>>
    ELSE Digits(n \div 10) \o <<DigitChars[(n % 10) + 1]>>

\* value of a text of digits
RECURSIVE DigitsVal(_)
DigitsVal(chars) ==
    IF chars = <<>> THEN 0
    ELSE 10 * DigitsVal(SubSeq(chars, 1, Len(chars) - 1))
         + DigitVal(chars[Len(chars)])

\* the "," grouping of Python's format spec: a comma before every group of three
RECURSIVE GroupThousands(_)
GroupThousands(ds) ==
    IF Len(ds) <= 3 THEN ds
    ELSE GroupThousands(SubSeq(ds, 1, Len(ds) - 3))
         \o <<",">> \o SubSeq(ds, Len(ds) - 2, Len(ds))

Abs(n) == IF n < 0 THEN -n ELSE n

\* str.strip(): leading and trailing blanks removed
RECURSIVE LStrip(_)
LStrip(chars) ==
    IF chars # <<>> /\ Head(chars) = " " THEN LStrip(Tail(chars)) ELSE chars

RECURSIVE RStrip(_)
RStrip(chars) ==
    IF chars # <<>> /\ chars[Len(chars)] = " "
    THEN RStrip(SubSeq(chars, 1, Len(chars) - 1)) ELSE chars

Strip(chars) == RStrip(LStrip(chars))

-----------------------------------------------------------------------------
(* float(): text to number *)

\* position of the first "." of a text, 0 when it has none
RECURSIVE DotPos(_, _)
DotPos(chars, k) ==
    IF k > Len(chars) THEN 0
    ELSE IF chars[k] = "." THEN k ELSE DotPos(chars, k + 1)

\* the digits after the decimal point, as 1/Scale units; a text with more
\* decimal digits than Scale holds is outside the model and stops TLC
FracVal(chars) ==
    IF 10 ^ Len(chars) <= Scale
    THEN DigitsVal(chars) * (Scale \div (10 ^ Len(chars)))
    ELSE CHOOSE n \in {} : TRUE

\* the number read from an unsigned text split at its first "." (dot = 0
\* when it has none): digits on either side, one digit at least
FloatOfParts(negative, body, dot) ==
    LET ip == IF dot = 0 THEN body ELSE SubSeq(body, 1, dot - 1)
        fp == IF dot = 0 THEN <<>> ELSE SubSeq(body, dot + 1, Len(body))
    IN  IF /\ \A k \in 1..Len(ip) : IsDigit(ip[k])
           /\ \A k \in 1..Len(fp) : IsDigit(fp[k])
           /\ Len(ip) + Len(fp) > 0
        THEN [ok |-> TRUE,
              v |-> IF negative
                    THEN -(DigitsVal(ip) * Scale + FracVal(fp))
                    ELSE DigitsVal(ip) * Scale + FracVal(fp)]
        ELSE [ok |-> FALSE, v |-> 0]

FloatOfBody(negative, body) == FloatOfParts(negative, body, DotPos(body, 1))

\* the number read from a text without blanks around: an optional sign first
FloatOfStripped(t0) ==
    IF t0 # <<>> /\ Head(t0) \in {"-", "+"}
    THEN FloatOfBody(Head(t0) = "-", Tail(t0))
    ELSE FloatOfBody(FALSE, t0)

\* Python's float(text) for texts of digits, ".", a leading sign and blanks
\* around; anything else is a ValueError (ok = FALSE)
PyFloatText(chars) == FloatOfStripped(Strip(chars))

-----------------------------------------------------------------------------
(* Python's format(): number to text *)

\* sign and magnitude of a number: magnitude = (m * Scale + r) / Scale^2
SignMag(x) ==
    IF x.v >= 0 THEN [neg |-> FALSE, m |-> x.v, r |-> x.r]
    ELSE IF x.r = 0 THEN [neg |-> TRUE, m |-> -x.v, r |-> 0]
    ELSE [neg |-> TRUE, m |-> -x.v - 1, r |-> Scale - x.r]

\* round (m * Scale + r) / (unit * Scale) to an integer, ties to even
RoundHalfEven(m, r, unit) ==
    LET whole == m \div unit
        rest == (m % unit) * Scale + r
        full == unit * Scale
    IN  IF 2 * rest > full \/ (2 * rest = full /\ whole % 2 = 1)
        THEN whole + 1 ELSE whole

\* f"{x:,.0f}"
FormatGrouped0(x) ==
    LET sm == SignMag(x)
    IN  (IF sm.neg THEN <<"-">> ELSE <<>>)
        \o GroupThousands(Digits(RoundHalfEven(sm.m, sm.r, Scale)))

\* f"{x:.2f}"
FormatFixed2(x) ==
    LET sm == SignMag(x)
        cents == RoundHalfEven(sm.m, sm.r, Scale \div 100)
    IN  (IF sm.neg THEN <<"-">> ELSE <<>>)
        \o Digits(cents \div 100) \o <<".">>
        \o <<DigitChars[((cents % 100) \div 10) + 1], DigitChars[(cents % 10) + 1]>>

-----------------------------------------------------------------------------
(* DataFormatters (formatters.py) *)

\* _esta_vacio: value in ["--", "", None] or pd.isna(value)
EstaVacio(x) ==
    \/ x.t \in {"none", "nan"}
    \/ IsStr(x) /\ x.s \in {DASHES, <<>>}

\* value.replace('.', '').replace(',', '.')
LimpiarSeparadores(chars) == Replace(Replace(chars, ".", <<>>), ",", <<".">>)

\* float(value) of a text or a number: ok = FALSE is the ValueError
FloatNumber(f) == [ok |-> f.ok, x |-> Num(f.v)]

PyFloat(x) ==
    IF IsStr(x) THEN FloatNumber(PyFloatText(x.s)) ELSE [ok |-> TRUE, x |-> x]

\* the text of the format spec returned as it is
KeepSeparators(chars) == chars

\* formatted.replace(",", "X").replace('.', ',').replace('X', '.')
SwapSeparators(chars) ==
    Replace(Replace(Replace(chars, ",", <<"X">>), ".", <<",">>), "X", <<".">>)

\* str(value) of a text (a number never fails float(), so only texts reach it)
PyStr(x) == x.s

\* value.replace(".", "").replace(",", ".") of a text; a number is kept
Cleaned(value) == IF IsStr(value) THEN Str(LimpiarSeparadores(value.s)) ELSE value

formatear_numero(value) ==
    IF EstaVacio(value) THEN DASHES
    ELSE LET Formatted(cleaned, f) ==
                 IF f.ok THEN SwapSeparators(FormatGrouped0(f.x))
                 ELSE PyStr(cleaned)      \* except: return str(value)
         IN  Formatted(Cleaned(value), PyFloat(Cleaned(value)))

formatear_moneda_sin_decimales(value) ==
    IF EstaVacio(value) THEN DASHES
    ELSE LET Formatted(cleaned, f) ==
                 IF f.ok THEN SwapSeparators(<<"$", " ">> \o FormatGrouped0(f.x))
                 ELSE PyStr(cleaned)      \* except: return str(value)
         IN  Formatted(Cleaned(value), PyFloat(Cleaned(value)))

\* formatted.endswith(",00")
EndsWithComma00(chars) ==
    Len(chars) >= 3 /\ SubSeq(chars, Len(chars) - 2, Len(chars)) = <<",", "0", "0">>

\* if formatted.endswith(",00"): formatted = formatted[:-3]
DropComma00(formatted) ==
    IF EndsWithComma00(formatted)
    THEN SubSeq(formatted, 1, Len(formatted) - 3) ELSE formatted

\* value.strip().replace("%", "").replace(",", ".") of a text
CleanedPercent(value) ==
    IF IsStr(value)
    THEN Str(Replace(Replace(Strip(value.s), "%", <<>>), ",", <<".">>))
    ELSE value

formatear_porcentaje(value) ==
    IF EstaVacio(value) THEN DASHES
    ELSE LET Formatted(cleaned, f) ==
                 IF f.ok
                 THEN DropComma00(Replace(FormatFixed2(f.x), ".", <<",">>)) \o <<"%">>
                 ELSE PyStr(cleaned)      \* except: return str(value)
         IN  Formatted(CleanedPercent(value), PyFloat(CleanedPercent(value)))

\* if 0 <= float_value < 100: float_value *= 100
RescaleBelowHundred(x) ==
    IF 0 <= x.v /\ x.v < 100 * Scale
    THEN NumR(x.v * 100 + (x.r * 100) \div Scale, (x.r * 100) % Scale)
    ELSE x

formatear_porcentaje_desde_decimal(value) ==
    IF EstaVacio(value) THEN DASHES
    ELSE LET Formatted(cleaned, f) ==
                 IF f.ok
                 THEN DropComma00(Replace(FormatFixed2(RescaleBelowHundred(f.x)),
                                          ".", <<",">>)) \o <<"%">>
                 ELSE PyStr(cleaned)      \* except: return str(value)
         IN  Formatted(CleanedPercent(value), PyFloat(CleanedPercent(value)))

\* str(int(x)): the number cut towards zero
IntText(x) ==
    (IF SignMag(x).neg /\ SignMag(x).m >= Scale THEN <<"-">> ELSE <<>>)
    \o Digits(SignMag(x).m \div Scale)

formatear_integer(value) ==
    IF EstaVacio(value) THEN DASHES
    ELSE LET Formatted(cleaned, f) ==
                 IF f.ok THEN IntText(f.x)
                 ELSE PyStr(cleaned)      \* except: return str(value)
         IN  Formatted(Cleaned(value), PyFloat(Cleaned(value)))

-----------------------------------------------------------------------------
(* CalculosFinancieros, CalculosUVI (calculations.py) *)

\* _numero_limpio: ok = FALSE is the ValueError of float()
numero_limpio(value) ==
    IF IsStr(value)
    THEN PyFloatText(LimpiarSeparadores(value.s))
    ELSE [ok |-> TRUE, v |-> value.v]

\* max(0, restantes) with the clamp left out
NoClamp(restantes) == restantes

\* max(0, restantes)
ClampNonNegative(restantes) == IF restantes > 0 THEN restantes ELSE 0

calcular_uvi_restantes(total_uvi, paid_uvi) ==
    IF EstaVacio(total_uvi) \/ EstaVacio(paid_uvi) THEN Ret(DASHES)
    ELSE LET Restantes(total_clean, paid_clean) ==
                 IF ~total_clean.ok \/ ~paid_clean.ok
                 THEN Ret(DASHES)      \* except Exception: return "--"
                 ELSE Ret(formatear_numero(
                            Num(ClampNonNegative(total_clean.v - paid_clean.v))))
         IN  Restantes(numero_limpio(total_uvi), numero_limpio(paid_uvi))

calcular_monto_restante(updated_monto, paid_monto) ==
    IF EstaVacio(updated_monto) \/ EstaVacio(paid_monto) THEN Ret(DASHES)
    ELSE LET Restantes(updated_clean, paid_clean) ==
                 IF ~updated_clean.ok \/ ~paid_clean.ok
                 THEN Ret(DASHES)      \* except Exception: return "--"
                 ELSE Ret(formatear_moneda_sin_decimales(
                            Num(ClampNonNegative(updated_clean.v - paid_clean.v))))
         IN  Restantes(numero_limpio(updated_monto), numero_limpio(paid_monto))

\* "if 0 <= progreso_clean <= 1" read as a strict bound on the right
RescaleBelowOne(progreso_clean) ==
    IF 0 <= progreso_clean /\ progreso_clean < Scale
    THEN progreso_clean * 100 ELSE progreso_clean

\* if 0 <= progreso_clean <= 1: progreso_clean *= 100
RescaleFraction(progreso_clean) ==
    IF 0 <= progreso_clean /\ progreso_clean <= Scale
    THEN progreso_clean * 100 ELSE progreso_clean

\* max(0, min(100, restantes))
ClampPercent(restantes) ==
    LET lo == IF restantes < 100 * Scale THEN restantes ELSE 100 * Scale
    IN  IF lo > 0 THEN lo ELSE 0

calculate_progreso_restante(current_progreso) ==
    IF EstaVacio(current_progreso) THEN Ret(DASHES)
    ELSE LET Restantes(progreso_clean) ==
                 IF ~progreso_clean.ok
                 THEN Ret(DASHES)      \* except Exception: return "--"
                 ELSE Ret(formatear_porcentaje(
                            Num(ClampPercent(100 * Scale
                                             - RescaleFraction(progreso_clean.v)))))
         IN  Restantes(numero_limpio(current_progreso))

\* The except clause of calculo_viviendas_restantes formats its warning with
\* the name delivered_viviendas, which is bound nowhere: evaluating the
\* f-string raises NameError out of the handler.
calculo_viviendas_restantes(total_viviendas, viv_entregadas) ==
    IF EstaVacio(total_viviendas) \/ EstaVacio(viv_entregadas) THEN Ret(DASHES)
    ELSE LET Restantes(total_clean, delivered_clean) ==
                 IF ~total_clean.ok \/ ~delivered_clean.ok
                 THEN Raise("NameError")
                 ELSE Ret(formatear_numero(
                            Num(ClampNonNegative(total_clean.v - delivered_clean.v))))
         IN  Restantes(numero_limpio(total_viviendas), numero_limpio(viv_entregadas))

\* cantidad_limpia * valor_uvi_limpio, exactly
Multiply(a, b) ==
    LET a_int == Abs(a) \div Scale
        a_frac == Abs(a) % Scale
        b_int == Abs(b) \div Scale
        b_frac == Abs(b) % Scale
        m == a_int * b_int * Scale + a_int * b_frac + a_frac * b_int
             + (a_frac * b_frac) \div Scale
        mr == (a_frac * b_frac) % Scale
    IN  IF (a < 0) = (b < 0) \/ (m = 0 /\ mr = 0) THEN NumR(m, mr)
        ELSE IF mr = 0 THEN NumR(-m, 0)
        ELSE NumR(-m - 1, Scale - mr)

\* "if valor_uvi_limpio <= 0" read as "< 0"
RateRejectedStrict(valor_uvi_limpio) == valor_uvi_limpio < 0

\* if valor_uvi_limpio <= 0: return "--"
RateRejected(valor_uvi_limpio) == valor_uvi_limpio <= 0

calcular_saldo_actualizado(cantidad_uvis, valor_uvi_actual) ==
    IF \/ EstaVacio(cantidad_uvis)
       \/ valor_uvi_actual = None
       \/ EstaVacio(valor_uvi_actual)
    THEN Ret(DASHES)
    ELSE LET Saldo(cantidad_limpia, valor_uvi_limpio) ==
                 IF ~cantidad_limpia.ok \/ ~valor_uvi_limpio.ok
                 THEN Ret(DASHES)      \* except Exception: return "--"
                 ELSE IF RateRejected(valor_uvi_limpio.x.v) THEN Ret(DASHES)
                 ELSE Ret(formatear_moneda_sin_decimales(
                            Multiply(cantidad_limpia.v, valor_uvi_limpio.x.v)))
         IN  Saldo(numero_limpio(cantidad_uvis), PyFloat(valor_uvi_actual))

-----------------------------------------------------------------------------
(* Inputs of the derivations *)

\* characters of the enumerated texts: a digit, both separators, the sign
\* (so that "--" and "" are among the texts) and a letter
Alphabet == {"5", ",", ".", "-", "x"}

Texts == UNION {[1..k -> Alphabet] : k \in 0..MaxLen}

Numbers == {Num(q * (Scale \div 4)) : q \in (-MaxQuarter)..MaxQuarter}

\* the operands the specification names, and their neighbours
T_0_45 == <<"0", ",", "4", "5">>
T_45 == <<"4", "5">>
T_45_5 == <<"4", "5", ",", "5">>
T_1_234_56 == <<"1", ".", "2", "3", "4", ",", "5", "6">>
T_1234_56 == <<"1", "2", "3", "4", ".", "5", "6">>

NamedOperands ==
    {Num(45 * Scale), Num(45 * (Scale \div 100)), Str(T_0_45), Str(T_45),
     Str(T_45_5), Num(45 * Scale + Scale \div 2), Num(100 * Scale),
     Num(150 * Scale), Str(<<"0">>), Str(<<"1", "0", "0">>)}

Operands == {None, NaN} \cup {Str(s) : s \in Texts} \cup Numbers \cup NamedOperands

\* second operands paired with every first operand (and the other way round)
FewOperands ==
    {None, NaN, Str(<<>>), Str(DASHES), Str(<<"x">>), Str(<<"5">>),
     Str(<<"-", "5">>), Str(<<"5", ",", "5">>), Str(<<"5", ".", "5">>)}
    \cup Numbers

\* the quantity and rate of the UVI balance example, the rate as the feed
\* sends it, as a number, and as text with a decimal point
NamedPairs ==
    {<<Num(1000 * Scale), Str(T_1_234_56)>>,
     <<Num(1000 * Scale), Num(1234 * Scale + 56 * (Scale \div 100))>>,
     <<Num(1000 * Scale), Str(T_1234_56)>>}

OperandPairs ==
    (Operands \X FewOperands) \cup (FewOperands \X Operands) \cup NamedPairs

-----------------------------------------------------------------------------
(* The batch run at rest (used while only the derivations are exercised) *)

RunIdle ==
    /\ pc = "idle"
    /\ obras = <<>>
    /\ pagos_df = <<>>
    /\ filter_prefix = "TODAS"
    /\ bf = 0
    /\ obras_procesadas = <<>>
    /\ pagos_por_obra = <<>>
    /\ resources = <<>>
    /\ sel = <<>>
    /\ it = 0
    /\ success_count = 0
    /\ error_count = 0
    /\ html = 0
    /\ debug_files = {}
    /\ pdf_files = {}
    /\ log = <<>>

\* SheetsReader.read_if_configured() returning None
NoFeed == [configured |-> FALSE, columns |-> {}, rows |-> <<>>]

MergeIdle ==
    /\ df_excel = <<>>
    /\ df_sheets = NoFeed

CalcIdle ==
    /\ MergeIdle
    /\ cFn = "none"
    /\ cA = None
    /\ cB = None
    /\ cRes = Ret(<<>>)

-----------------------------------------------------------------------------
(* Specification of the derivations: each is applied once to a pair of operands *)

CalcInit ==
    /\ MergeIdle
    /\ cFn = "none"
    /\ \E pair \in OperandPairs : cA = pair[1] /\ cB = pair[2]
    /\ cRes = Ret(<<>>)
    /\ RunIdle

Call_calcular_uvi_restantes ==
    /\ cFn = "none"
    /\ cFn' = "calcular_uvi_restantes"
    /\ cRes' = calcular_uvi_restantes(cA, cB)
    /\ UNCHANGED <<cA, cB>>
    /\ UNCHANGED runVars
    /\ UNCHANGED mergeVars

Call_calcular_monto_restante ==
    /\ cFn = "none"
    /\ cFn' = "calcular_monto_restante"
    /\ cRes' = calcular_monto_restante(cA, cB)
    /\ UNCHANGED <<cA, cB>>
    /\ UNCHANGED runVars
    /\ UNCHANGED mergeVars

Call_calculate_progreso_restante ==
    /\ cFn = "none"
    /\ cFn' = "calculate_progreso_restante"
    /\ cRes' = calculate_progreso_restante(cA)
    /\ UNCHANGED <<cA, cB>>
    /\ UNCHANGED runVars
    /\ UNCHANGED mergeVars

Call_calculo_viviendas_restantes ==
    /\ cFn = "none"
    /\ cFn' = "calculo_viviendas_restantes"
    /\ cRes' = calculo_viviendas_restantes(cA, cB)
    /\ UNCHANGED <<cA, cB>>
    /\ UNCHANGED runVars
    /\ UNCHANGED mergeVars

Call_calcular_saldo_actualizado ==
    /\ cFn = "none"
    /\ cFn' = "calcular_saldo_actualizado"
    /\ cRes' = calcular_saldo_actualizado(cA, cB)
    /\ UNCHANGED <<cA, cB>>
    /\ UNCHANGED runVars
    /\ UNCHANGED mergeVars

CalcNext ==
    \/ Call_calcular_uvi_restantes
    \/ Call_calcular_monto_restante
    \/ Call_calculate_progreso_restante
    \/ Call_calculo_viviendas_restantes
    \/ Call_calcular_saldo_actualizado

SpecCalc == CalcInit /\ [][CalcNext]_vars

-----------------------------------------------------------------------------
(* Dictionaries, rows and dates *)

\* dict.get / Series.get: the value under key, default when the key is absent
Get(d, key, default) == IF key \in DOMAIN d THEN d[key] ELSE default

\* a datetime value: year, month and day packed as yyyymmdd
Date(y, m, d) == [t |-> "date", v |-> y * 10000 + m * 100 + d, r |-> 0, s |-> <<>>]

IsLeap(y) == (y % 4 = 0 /\ y % 100 # 0) \/ y % 400 = 0

DaysInMonth(y, m) ==
    IF m = 2 THEN (IF IsLeap(y) THEN 29 ELSE 28)
    ELSE IF m \in {4, 6, 9, 11} THEN 30 ELSE 31

ValidDate(y, m, d) == y >= 1 /\ m \in 1..12 /\ d >= 1 /\ d <= DaysInMonth(y, m)

TwoDigits(n) == <<DigitChars[(n \div 10) + 1], DigitChars[(n % 10) + 1]>>

FourDigits(n) == TwoDigits(n \div 100) \o TwoDigits(n % 100)

\* strftime("%d/%m/%Y")
StrftimeDMY(x) ==
    TwoDigits(x.v % 100) \o <<"/">> \o TwoDigits((x.v \div 100) % 100)
    \o <<"/">> \o FourDigits(x.v \div 10000)

\* the pieces of a text between occurrences of sep
RECURSIVE Split(_, _)
Split(chars, sep) ==
    IF \A k \in 1..Len(chars) : chars[k] # sep THEN <<chars>>
    ELSE LET k == CHOOSE i \in 1..Len(chars) :
                      chars[i] = sep /\ \A j \in 1..(i - 1) : chars[j] # sep
         IN  <<SubSeq(chars, 1, k - 1)>> \o Split(SubSeq(chars, k + 1, Len(chars)), sep)

AllDigits(chars) == chars # <<>> /\ \A k \in 1..Len(chars) : IsDigit(chars[k])

\* a text matched against a strptime layout of three numeric fields; yi, mi
\* and di are the positions of year, month and day among the fields
ParseFields(chars, sep, yi, mi, di) ==
    LET f == Split(chars, sep)
        shaped == /\ Len(f) = 3
                  /\ \A k \in 1..3 : AllDigits(f[k])
                  /\ Len(f[yi]) = 4 /\ Len(f[mi]) <= 2 /\ Len(f[di]) <= 2
    IN  IF shaped /\ ValidDate(DigitsVal(f[yi]), DigitsVal(f[mi]), DigitsVal(f[di]))
        THEN [ok |-> TRUE, x |-> Date(DigitsVal(f[yi]), DigitsVal(f[mi]), DigitsVal(f[di]))]
        ELSE [ok |-> FALSE, x |-> NaN]

\* for fmt in ["%Y-%m-%d", "%d/%m/%Y", "%m/%d/%Y"]: the first layout that parses
ParseDateText(chars) ==
    LET iso == ParseFields(chars, "-", 1, 2, 3)
        dmy == ParseFields(chars, "/", 3, 2, 1)
        mdy == ParseFields(chars, "/", 3, 1, 2)
    IN  IF iso.ok THEN iso ELSE IF dmy.ok THEN dmy ELSE mdy

\* f"{x:,.2f}"
FormatGrouped2(x) ==
    LET sm == SignMag(x)
        cents == RoundHalfEven(sm.m, sm.r, Scale \div 100)
    IN  (IF sm.neg THEN <<"-">> ELSE <<>>)
        \o GroupThousands(Digits(cents \div 100)) \o <<".">>
        \o TwoDigits(cents % 100)

formatear_moneda(value) ==
    IF EstaVacio(value) THEN DASHES
    ELSE LET Formatted(cleaned, f) ==
                 IF f.ok THEN SwapSeparators(<<"$", " ">> \o FormatGrouped2(f.x))
                 ELSE PyStr(cleaned)      \* except: return str(value)
         IN  Formatted(Cleaned(value), PyFloat(Cleaned(value)))

\* formatear_fecha for an empty value, a datetime, or a text.  A text none of
\* the three layouts parses goes to the free-form pd.to_datetime(fecha); the
\* texts of the model are not dates in any layout, so that call raises and
\* the except returns str(fecha).
formatear_fecha(fecha) ==
    IF EstaVacio(fecha) THEN DASHES
    ELSE IF fecha.t = "date" THEN StrftimeDMY(fecha)
    ELSE IF IsStr(fecha)
         THEN LET parsed == ParseDateText(fecha.s)
              IN  IF parsed.ok THEN StrftimeDMY(parsed.x) ELSE PyStr(fecha)
    ELSE PyStr(fecha)

-----------------------------------------------------------------------------
(* PDFGenerator: the payment index (generator.py) *)

\* pd.isna(val)
IsNa(x) == x.t \in {"none", "nan"}

\* _clean_value for an identifier cell holding text or nothing
clean_value(val) ==
    IF IsNa(val) THEN None
    ELSE IF val.s # <<>> THEN Str(Strip(val.s))
    ELSE None

\* pd.to_datetime(column, errors='coerce') of one cell: NaN stands for NaT
to_datetime_coerce(x) ==
    IF x.t = "date" THEN x
    ELSE IF IsStr(x) /\ ParseDateText(x.s).ok THEN ParseDateText(x.s).x
    ELSE NaN

\* the text a project id cell is indexed under: str(obra_id_raw).strip()
ObraIdText(x) == Strip(x.s)

PAGADO == <<"P", "a", "g", "a", "d", "o">>

DEVENGADO_SIN_PAGAR ==
    <<"D", "e", "v", "e", "n", "g", "a", "d", "o", " ", "s", "i", "n", " ",
      "p", "a", "g", "a", "r">>

\* the result of _pick_first_existing when no candidate is a column (None)
NoColumn == ""

\* the last candidate that is a column
pick_last_existing(columns, candidates) ==
    IF \E k \in 1..Len(candidates) : candidates[k] \in columns
    THEN candidates[CHOOSE k \in 1..Len(candidates) :
                        /\ candidates[k] \in columns
                        /\ \A j \in (k + 1)..Len(candidates) : candidates[j] \notin columns]
    ELSE NoColumn

\* _pick_first_existing: the first candidate that is a column
pick_first_existing(columns, candidates) ==
    IF \E k \in 1..Len(candidates) : candidates[k] \in columns
    THEN candidates[CHOOSE k \in 1..Len(candidates) :
                        /\ candidates[k] \in columns
                        /\ \A j \in 1..(k - 1) : candidates[j] \notin columns]
    ELSE NoColumn

\* the candidate names of the columns, as _build_pagos_index lists them
KeyCandidates ==
    <<"id_obra", "obra_id", "idobra", "id", "obra", "codigo_obra", "cod_obra">>
TrataCandidates == <<"trata">>
NroCertCandidates == <<"certificado_dga">>
ExpedienteCandidates == <<"expediente", "expediente_gdeba", "exp">>
DevengadoCandidates == <<"importe_devengado", "devengado", "monto_devengado">>
FechaPagoCandidates == <<"fecha_pago", "fecha_de_pago", "fecha", "fecha_pago_real">>

\* r.get(col) if col else None
Cell(r, col) == IF col # NoColumn THEN r[col] ELSE None

\* the entry the loop body builds for row r at position idx of the table
PagoEntry(r, idx) ==
    LET nro_cert_raw == Cell(r, pick_first_existing(DOMAIN r, NroCertCandidates))
        devengado_raw == Cell(r, pick_first_existing(DOMAIN r, DevengadoCandidates))
        fecha_pago_raw == Cell(r, pick_first_existing(DOMAIN r, FechaPagoCandidates))
        has_fecha_col == pick_first_existing(DOMAIN r, FechaPagoCandidates) # NoColumn
    IN  [trata |-> clean_value(Cell(r, pick_first_existing(DOMAIN r, TrataCandidates))),
         nro |-> IF ~IsNa(nro_cert_raw)
                 THEN Str(formatear_numero(nro_cert_raw)) ELSE None,
         expediente |->
              clean_value(Cell(r, pick_first_existing(DOMAIN r, ExpedienteCandidates))),
         devengado |-> IF ~IsNa(devengado_raw)
                       THEN Str(formatear_moneda_sin_decimales(devengado_raw)) ELSE None,
         fecha_pago |-> IF ~IsNa(fecha_pago_raw)
                        THEN Str(formatear_fecha(fecha_pago_raw)) ELSE None,
         estado_calculado |->
              IF has_fecha_col /\ ~IsNa(to_datetime_coerce(fecha_pago_raw))
              THEN Str(PAGADO)
              ELSE IF ~IsNa(devengado_raw) THEN Str(DEVENGADO_SIN_PAGAR)
              ELSE None,
         _sort_fecha |-> IF has_fecha_col THEN to_datetime_coerce(fecha_pago_raw)
                         ELSE NaN,
         _sort_idx |-> idx]

\* rows whose id cell is null or empty are skipped, "--" is taken for an id
PagoRowIndexedDashes(r, key_col) ==
    /\ ~IsNa(r[key_col])
    /\ ObraIdText(r[key_col]) # <<>>

\* rows whose id cell is null, empty or "--" are skipped
PagoRowIndexed(r, key_col) ==
    /\ ~IsNa(r[key_col])
    /\ ObraIdText(r[key_col]) # <<>>
    /\ ObraIdText(r[key_col]) # DASHES

\* the list sorted by payment date, latest first and undated last, as the
\* docstring of _build_pagos_index announces
RECURSIVE SortByFechaDesc(_)
SortByFechaDesc(ps) ==
    IF ps = <<>> THEN <<>>
    ELSE LET rest == SortByFechaDesc(SubSeq(ps, 1, Len(ps) - 1))
             x == ps[Len(ps)]
             n == Cardinality({k \in 1..Len(rest) : rest[k]._sort_fecha.v >= x._sort_fecha.v})
         IN  SubSeq(rest, 1, n) \o <<x>> \o SubSeq(rest, n + 1, Len(rest))

\* list.sort(key=lambda p: p["_sort_idx"]): stable insertion by the key
RECURSIVE SortBySortIdx(_)
SortBySortIdx(ps) ==
    IF ps = <<>> THEN <<>>
    ELSE LET rest == SortBySortIdx(SubSeq(ps, 1, Len(ps) - 1))
             x == ps[Len(ps)]
             n == Cardinality({k \in 1..Len(rest) : rest[k]._sort_idx <= x._sort_idx})
         IN  SubSeq(rest, 1, n) \o <<x>> \o SubSeq(rest, n + 1, Len(rest))

\* the loop over df.iterrows(), setdefault(obra_id, []).append(pago): the
\* entries appended under obra_id, in the order of the rows
PagosOf(df, key_col, obra_id) ==
    LET positions ==
            SelectSeq([k \in 1..Len(df) |-> k],
                      LAMBDA k : PagoRowIndexed(df[k], key_col)
                                 /\ ObraIdText(df[k][key_col]) = obra_id)
    IN  [j \in 1..Len(positions) |-> PagoEntry(df[positions[j]], positions[j] - 1)]

\* the index of a table that has the key column key_col
IndexByKey(df, key_col) ==
    [obra_id \in {ObraIdText(df[k][key_col]) :
                     k \in {j \in 1..Len(df) : PagoRowIndexed(df[j], key_col)}}
        |-> SortBySortIdx(PagosOf(df, key_col, obra_id))]

\* _build_pagos_index of a table whose columns carry their normalized names;
\* the table <<>> stands for an absent table (None) and for an empty one
build_pagos_index(df) ==
    IF df = <<>> THEN <<>>
    ELSE IF pick_first_existing(DOMAIN df[1], KeyCandidates) = NoColumn THEN <<>>
    ELSE IndexByKey(df, pick_first_existing(DOMAIN df[1], KeyCandidates))

\* _to_display
to_display(value) ==
    IF IsNa(value) THEN DASHES
    ELSE IF Strip(value.s) # <<>> THEN Strip(value.s) ELSE DASHES

-----------------------------------------------------------------------------
(* PDFGenerator: filter, context assembler, file names (generator.py) *)

StartsWith(chars, prefix) ==
    Len(chars) >= Len(prefix) /\ SubSeq(chars, 1, Len(prefix)) = prefix

EndsWith(chars, suffix) ==
    Len(chars) >= Len(suffix)
    /\ SubSeq(chars, Len(chars) - Len(suffix) + 1, Len(chars)) = suffix

PREFIX_OTRAS == <<"O", "T", "R", "A", "S", "-">>
PREFIX_CONVE == <<"C", "O", "N", "V", "E", "-">>

\* df['id_obra'].str.startswith(prefix, na=False) for one row
IdStartsWith(row, prefix) ==
    IsStr(row["id_obra"]) /\ StartsWith(row["id_obra"].s, prefix)

\* df['id_obra'].str exists for a column that holds text; a column of a
\* table with rows in which no id is a text (every id null) is numeric, and
\* the accessor raises AttributeError
StrAccessorRaises(df) ==
    df # <<>> /\ \A k \in 1..Len(df) : ~IsStr(df[k]["id_obra"])

\* _filter_dataframe raises: the modes that use the accessor
filter_raises(df, prefix) == prefix \in {"OTRAS", "CONVE"} /\ StrAccessorRaises(df)

\* _filter_dataframe: the positions of the rows kept, in table order
filter_dataframe(df, prefix) ==
    LET positions == [k \in 1..Len(df) |-> k]
        Keep(k) ==
            IF prefix = "OTRAS" THEN IdStartsWith(df[k], PREFIX_OTRAS)
            ELSE IF prefix = "CONVE" THEN IdStartsWith(df[k], PREFIX_CONVE)
            ELSE TRUE
    IN  SelectSeq(positions, Keep)

\* str(value) of an id cell
IdText(x) ==
    IF IsStr(x) THEN x.s
    ELSE IF x.t = "nan" THEN <<"n", "a", "n">> ELSE <<"N", "o", "n", "e">>

UnsafeChars == {"\\", "/", "*", "?", ":", "\"", "<", ">", "|"}

\* the text with nothing removed
KeepUnsafe(chars) == chars

\* re.sub(r'[\\/*?:"<>|]', '', text)
RemoveUnsafe(chars) == SelectSeq(chars, LAMBDA c : c \notin UnsafeChars)

DOT_PDF == <<".", "p", "d", "f">>

\* _generate_safe_filename
generate_safe_filename(obra_id) ==
    LET nombre_base == <<"i", "n", "f", "o", "r", "m", "e", "_">> \o IdText(obra_id)
        nombre_seguro == RemoveUnsafe(nombre_base)
    IN  IF EndsWith(nombre_seguro, DOT_PDF) THEN nombre_seguro
        ELSE nombre_seguro \o DOT_PDF

\* In the dict literal the key written before the remaining-amount entry is
\* preceded by a triple-quoted string with no comma after it; Python joins
\* adjacent string literals, so the entry is stored under the joined text.
KEY_MONTO_RESTANTE == "<commented block>Monto_Restante_Actualizado"

\* "if pagos[0]": a dict is true when it has a key
Truthy(d) == DOMAIN d # {}

\* the keys of the context that the model keeps
ContextKeys ==
    {"ID_obra", "Viviendas_Totales", "Viviendas_Entregadas", "Viviendas_Restantes",
     "noticias", "Avance_Restante", KEY_MONTO_RESTANTE, "pagos_lista",
     "Nro", "Expediente", "Nro_Operatoria", "Contratista", "Estado_Pago",
     "Devengado", "Fecha_Pago"}

CtxRaise(e) == [raised |-> TRUE, exc |-> e, ctx |-> <<>>]
CtxOk(c) == [raised |-> FALSE, exc |-> "", ctx |-> c]

\* _build_template_context: the derived fields, the news and the payment
\* fields of the context (static resources, images and the fields copied or
\* formatted straight from the row cannot raise and are left out).
\* noticias is the outcome of the editorial feed for this row.
\* "except ValueError" in place of "except Exception" around the feed call
FeedExceptCatchesValueError(exc) == exc = "ValueError"

\* "except Exception as e" around obtener_noticias_por_obra
FeedExceptCatches(exc) == TRUE

build_template_context(row, noticias, index) ==
    LET sentinel == Str(DASHES)
        news == IF noticias.raised THEN <<>> ELSE noticias.items
        viv == calculo_viviendas_restantes(Get(row, "viv_totales", sentinel),
                                           Get(row, "viv_entregadas", sentinel))
        avance == calculate_progreso_restante(
                      Get(row, "porcentaje_avance_fisico", sentinel))
        monto == calcular_monto_restante(Get(row, "monto_actualizado", sentinel),
                                         Get(row, "monto_pagado", sentinel))
        obra_id == Strip(IdText(Get(row, "id_obra", Str(<<>>))))
        pagos == Get(index, obra_id, <<>>)
        p0 == pagos[1]
    IN  IF noticias.raised /\ ~FeedExceptCatches(noticias.exc)
        THEN CtxRaise(noticias.exc)
        ELSE IF viv.raised THEN CtxRaise(viv.exc)
        ELSE IF pagos = <<>> THEN CtxRaise("IndexError")    \* pagos[0]
        ELSE CtxOk(
            [k \in ContextKeys |->
                CASE k = "ID_obra" -> Get(row, "id_obra", sentinel)
                  [] k = "Viviendas_Totales" ->
                        formatear_numero(Get(row, "viv_totales", sentinel))
                  [] k = "Viviendas_Entregadas" ->
                        formatear_numero(Get(row, "viv_entregadas", sentinel))
                  [] k = "Viviendas_Restantes" -> viv.val
                  [] k = "noticias" -> news
                  [] k = "Avance_Restante" -> avance.val
                  [] k = KEY_MONTO_RESTANTE -> monto.val
                  [] k = "pagos_lista" -> pagos
                  [] k = "Nro" ->
                        IF Truthy(p0)
                        THEN to_display(Get(p0, "certificado_dga", None)) ELSE DASHES
                  [] k = "Expediente" ->
                        IF Truthy(p0)
                        THEN to_display(Get(p0, "expediente", None)) ELSE DASHES
                  [] k = "Nro_Operatoria" ->
                        IF Truthy(p0) THEN to_display(Get(p0, "OP", None)) ELSE DASHES
                  [] k = "Contratista" ->
                        IF Truthy(p0) THEN to_display(Get(p0, "ente", None)) ELSE DASHES
                  [] k = "Estado_Pago" ->
                        IF Truthy(p0)
                        THEN to_display(Get(p0, "estado_pago", None)) ELSE DASHES
                  [] k = "Devengado" ->
                        IF Truthy(p0)
                        THEN formatear_moneda(Get(p0, "importe_devengado", None))
                        ELSE DASHES
                  [] k = "Fecha_Pago" ->
                        IF Truthy(p0)
                        THEN formatear_fecha(Get(p0, "fecha_pago", None)) ELSE DASHES])

-----------------------------------------------------------------------------
(* main(): the backfill loop (run.py) *)

\* obra[campo] not in ['--', '', None]
NotPlaceholder(x) == ~(x.t = "none" \/ (IsStr(x) /\ x.s \in {DASHES, <<>>}))

\* campos_a_formatear: the fields formatted as a number, and as currency
CamposNumero ==
    {"Viviendas_Totales", "Viviendas_Entregadas", "Saldo_UVI_Pendiente", "Uvis_Restantes"}

CamposMoneda == {"Monto_Convenio"}

\* the call that computes Viviendas_Restantes for a record of the loop
backfill_viviendas(obra) ==
    calculo_viviendas_restantes(Get(obra, "Viviendas_Totales", Str(DASHES)),
                                Get(obra, "viv_entregadas", Str(DASHES)))

\* the body of the loop for a record whose derivations returned: the record
\* obra_procesada, key by key.  In the order of the body: every field is
\* copied; Total_UVI is reformatted when present; Avance_Restante is added when
\* Avance_fisico is present and it is not; Viviendas_Restantes is assigned;
\* Saldo_Obra_Actualizado is added when absent; the fields of
\* campos_a_formatear that are present and not a placeholder are reformatted.
backfill_record(obra) ==
    LET source == DOMAIN obra
        keys == source
                \cup {"Viviendas_Restantes", "Saldo_Obra_Actualizado"}
                \cup (IF "Avance_fisico" \in source THEN {"Avance_Restante"} ELSE {})
    IN  [k \in keys |->
            IF k \in CamposNumero /\ k \in source /\ NotPlaceholder(obra[k])
            THEN Str(formatear_numero(obra[k]))
            ELSE IF k \in CamposMoneda /\ k \in source /\ NotPlaceholder(obra[k])
            THEN Str(formatear_moneda_sin_decimales(obra[k]))
            ELSE IF k = "Viviendas_Restantes"
            THEN Str(backfill_viviendas(obra).val)
            ELSE IF k = "Total_UVI"
            THEN Str(formatear_numero(obra[k]))
            ELSE IF k = "Avance_Restante" /\ k \notin source
            THEN Str(calculate_progreso_restante(obra["Avance_fisico"]).val)
            ELSE IF k = "Saldo_Obra_Actualizado" /\ k \notin source
            THEN Str(DASHES)
            ELSE obra[k]]

-----------------------------------------------------------------------------
(* main(): the resource bundle (run.py) *)

KEY_BANNER == <<"b", "a", "n", "n", "e", "r">>
KEY_FOOTER == <<"f", "o", "o", "t", "e", "r">>
OBRA_IMAGES_ == <<"o", "b", "r", "a", "_", "i", "m", "a", "g", "e", "s", "_">>

\* ResourceProcessor.prepare_all(): the static resources, each under its name
BaseResources == [k \in {KEY_BANNER, KEY_FOOTER} |-> <<"/">> \o k]

\* ResourceProcessor.get_work_images(obra_id)
get_work_images(obra_id) == [principal |-> obra_id, adicionales |-> <<>>]

\* obra_id = str(row.get('id_obra', '')).strip()
obra_id_of(row) == Strip(IdText(Get(row, "id_obra", Str(<<>>))))

\* if obra_id and obra_id not in ['--', '']
HasImages(row) == obra_id_of(row) # <<>> /\ obra_id_of(row) # DASHES

\* f'obra_images_{idx}' for the row at position k (idx = k - 1)
ImagesKey(k) == OBRA_IMAGES_ \o Digits(k - 1)

\* resources as main() hands it to PDFGenerator: the static resources and,
\* for every row with a project id, its images under obra_images_<idx>
prepare_resources(df) ==
    [key \in DOMAIN BaseResources
              \cup {ImagesKey(k) : k \in {j \in 1..Len(df) : HasImages(df[j])}} |->
        IF key \in DOMAIN BaseResources THEN BaseResources[key]
        ELSE get_work_images(
                 obra_id_of(df[CHOOSE k \in 1..Len(df) : ImagesKey(k) = key]))]

\* a dict whose lookups store the default under a missing key (setdefault)
dict_after_setdefault(d, key, default) ==
    [k \in DOMAIN d \cup {key} |-> IF k \in DOMAIN d THEN d[k] ELSE default]

\* d.get(key, default): the dict after the lookup
dict_after_get(d, key, default) == d

\* the dict literal of _build_template_context is evaluated to its end, so
\* that the lookup in the payment index is reached
LiteralReturns(row) ==
    ~calculo_viviendas_restantes(Get(row, "viv_totales", Str(DASHES)),
                                 Get(row, "viv_entregadas", Str(DASHES))).raised

-----------------------------------------------------------------------------
(* Inputs of a batch run *)

ID_OTRAS_1 == <<"O", "T", "R", "A", "S", "-", "1">>
ID_CONVE_1 == <<"C", "O", "N", "V", "E", "-", "1">>

ObraIds == {Str(ID_OTRAS_1), Str(ID_CONVE_1)}

\* a row of the projects table: its id, the units total the context reads
\* (viv_totales) and the units total the backfill reads (Viviendas_Totales)
ObraRow(id, viv_totales, Viviendas_Totales) ==
    ("id_obra" :> id)
    @@ ("viv_totales" :> viv_totales)
    @@ ("viv_entregadas" :> Num(4 * Scale))
    @@ ("Viviendas_Totales" :> Viviendas_Totales)
    @@ ("porcentaje_avance_fisico" :> Num(45 * (Scale \div 100)))
    @@ ("monto_actualizado" :> Num(1000 * Scale))
    @@ ("monto_pagado" :> Num(250 * Scale))

\* the ids of rows that name no project: null, empty, "--"
PlaceholderIds == {NaN, Str(<<>>), Str(DASHES)}

ObraRows ==
    {ObraRow(id, vt, bt) :
        id \in ObraIds,
        vt \in {Num(10 * Scale), Str(<<"x">>)},
        bt \in {NaN, Num(10 * Scale), Str(<<"x">>)}}
    \cup {ObraRow(id, Num(10 * Scale), Num(10 * Scale)) : id \in PlaceholderIds}

\* a row of a sheet that carries the derived columns itself: 3 units
\* remaining, 45 % done and 50 % remaining, a total of 1.234 UVI
ObraRowDerived(id) ==
    [c \in DOMAIN ObraRow(id, Num(10 * Scale), Num(10 * Scale))
            \cup {"Viviendas_Restantes", "Avance_fisico", "Avance_Restante",
                  "Total_UVI"} |->
        CASE c = "Viviendas_Restantes" -> Str(<<"3">>)
          [] c = "Avance_fisico" -> Str(<<"4", "5">>)
          [] c = "Avance_Restante" -> Str(<<"5", "0">>)
          [] c = "Total_UVI" -> Str(<<"1", ".", "2", "3", "4">>)
          [] OTHER -> ObraRow(id, Num(10 * Scale), Num(10 * Scale))[c]]

ObraRowsDerived == {ObraRowDerived(id) : id \in ObraIds}

\* every row of a table has the columns of the sheet
ObrasTables ==
    UNION {[1..n -> ObraRows] : n \in 0..MaxRecords}
    \cup UNION {[1..n -> ObraRowsDerived] : n \in 1..MaxRecords}

PagoRow(id, certificado, devengado, fecha) ==
    ("id_obra" :> id)
    @@ ("certificado_dga" :> certificado)
    @@ ("expediente" :> Str(<<"E", "X", "-", "1">>))
    @@ ("importe_devengado" :> devengado)
    @@ ("fecha_pago" :> fecha)

\* the payments tables: none, one paid entry, and three entries of two
\* projects of which the later one is the paid one
PagosTables ==
    {<<>>,
     <<PagoRow(Str(ID_OTRAS_1), Num(7 * Scale), Num(1500 * Scale), Date(2024, 1, 15))>>,
     <<PagoRow(Str(ID_OTRAS_1), Num(7 * Scale), Num(1500 * Scale), NaN),
       PagoRow(Str(ID_CONVE_1), NaN, NaN, NaN),
       PagoRow(Str(ID_OTRAS_1), Num(8 * Scale), Num(2500 * Scale), Date(2024, 2, 29))>>}

\* two projects whose ids differ by a character no file name may hold
ID_OTRAS_SLASH_1 == <<"O", "T", "R", "A", "S", "-", "/", "1">>

ObraRowsSlash ==
    {ObraRow(id, Num(10 * Scale), Num(10 * Scale)) :
        id \in {Str(ID_OTRAS_1), Str(ID_OTRAS_SLASH_1)}}

ObrasTablesSlash == UNION {[1..n -> ObraRowsSlash] : n \in 1..MaxRecords}

\* a payment of each of the two projects
PagosSlash ==
    <<PagoRow(Str(ID_OTRAS_1), Num(7 * Scale), Num(1500 * Scale), Date(2024, 1, 15)),
      PagoRow(Str(ID_OTRAS_SLASH_1), Num(8 * Scale), Num(2500 * Scale),
              Date(2024, 2, 29))>>

\* what the editorial feed does for one row: raise, or return its items
NoticiasOutcomes ==
    {[raised |-> TRUE, exc |-> "ConnectionError", items |-> <<>>],
     [raised |-> FALSE, exc |-> "", items |-> <<"noticia">>]}

-----------------------------------------------------------------------------
(* The batch run, from the merged table on: main() without --dry-run.        *)
(* obras holds the records as they reach the backfill loop.                  *)

Init ==
    /\ CalcIdle
    /\ pc = "backfill"
    /\ \/ obras \in ObrasTables /\ pagos_df \in PagosTables
       \/ obras \in ObrasTablesSlash /\ pagos_df = PagosSlash
    /\ filter_prefix \in {"OTRAS", "CONVE", "TODAS"}
    /\ bf = 0
    /\ obras_procesadas = <<>>
    /\ pagos_por_obra = <<>>
    /\ resources = prepare_resources(obras)
    /\ sel = <<>>
    /\ it = 0
    /\ success_count = 0
    /\ error_count = 0
    /\ html = 0
    /\ debug_files = {}
    /\ pdf_files = {}
    /\ log = <<>>

\* one round of "for obra in obras_con_saldo": an exception of the body
\* leaves the loop and reaches main's "except Exception" (return 1)
Backfill ==
    /\ pc = "backfill"
    /\ bf < Len(obras)
    /\ LET obra == obras[bf + 1]
       IN  IF backfill_viviendas(obra).raised
           THEN /\ pc' = "error"
                /\ UNCHANGED <<bf, obras_procesadas>>
           ELSE /\ pc' = pc
                /\ bf' = bf + 1
                /\ obras_procesadas' = Append(obras_procesadas, backfill_record(obra))
    /\ UNCHANGED <<obras, pagos_df, filter_prefix, pagos_por_obra, sel, it,
                   success_count, error_count, html, debug_files, pdf_files, log>>
    /\ UNCHANGED resources
    /\ UNCHANGED calcVars
    /\ UNCHANGED mergeVars

\* PDFGenerator(resources, output, pagos_df) and the head of generate_all:
\* the index is built, the table filtered; an empty selection returns at once.
\* An exception of _filter_dataframe is outside every try of generate_all and
\* reaches main's "except Exception" (return 1): pc = "filter_error".
StartGenerate ==
    /\ pc = "backfill"
    /\ bf = Len(obras)
    /\ pagos_por_obra' = build_pagos_index(pagos_df)
    /\ sel' = IF filter_raises(obras, filter_prefix) THEN sel
              ELSE filter_dataframe(obras, filter_prefix)
    /\ pc' = IF filter_raises(obras, filter_prefix) THEN "filter_error"
             ELSE IF sel' = <<>> THEN "done" ELSE "emit"
    /\ success_count' = 0
    /\ error_count' = 0
    /\ UNCHANGED <<obras, pagos_df, filter_prefix, bf, obras_procesadas, it, html,
                   debug_files, pdf_files, log>>
    /\ UNCHANGED resources
    /\ UNCHANGED calcVars
    /\ UNCHANGED mergeVars

\* "except: pass" around the debug write, narrowed so that NameError escapes
InnerExceptMissesNameError(exc) == exc # "NameError"

\* "except: pass" around the debug write: every exception is swallowed
InnerExceptCatches(exc) == TRUE

\* one round of "for idx, row in filtered_df.iterrows()".  noticias,
\* render_ok and pdf_ok are what the editorial feed, the template engine and
\* wkhtmltopdf do for this row.  html holds the row whose markup the variable
\* html is bound to, 0 while it is unbound.  In the handler, open() creates
\* error_<idx>.html before f.write(html) is evaluated: the file receives the
\* markup html is bound to, and stays empty (content 0) when html is unbound
\* and the NameError is swallowed.
Emit ==
    /\ pc = "emit"
    /\ it < Len(sel)
    /\ \E noticias \in NoticiasOutcomes, render_ok \in BOOLEAN, pdf_ok \in BOOLEAN :
         LET idx == sel[it + 1]
             row == obras[idx]
             built == build_template_context(row, noticias, pagos_por_obra)
             filename == generate_safe_filename(row["id_obra"])
             debug_exc == IF html = 0 THEN "NameError" ELSE ""
         IN  IF built.raised \/ ~render_ok
             THEN \* except Exception
                  IF debug_exc # "" /\ ~InnerExceptCatches(debug_exc)
                  THEN /\ pc' = "error"
                       /\ error_count' = error_count + 1
                       /\ debug_files' =
                            debug_files \cup {[idx |-> idx, content |-> html]}
                       /\ UNCHANGED <<it, success_count, html, pdf_files, log>>
                  ELSE /\ pc' = pc
                       /\ it' = it + 1
                       /\ error_count' = error_count + 1
                       /\ debug_files' =
                            debug_files \cup {[idx |-> idx, content |-> html]}
                       /\ log' = Append(log,
                            [row |-> idx, built |-> built,
                             render |-> IF built.raised THEN "not reached" ELSE "raised",
                             pdf |-> "not reached", counted |-> "error"])
                       /\ UNCHANGED <<success_count, html, pdf_files>>
             ELSE /\ pc' = pc
                  /\ it' = it + 1
                  /\ html' = idx
                  /\ success_count' = IF pdf_ok THEN success_count + 1 ELSE success_count
                  /\ error_count' = IF pdf_ok THEN error_count ELSE error_count + 1
                  /\ pdf_files' =
                       IF pdf_ok
                       THEN {f \in pdf_files : f.name # filename}
                            \cup {[name |-> filename, content |-> idx]}
                       ELSE pdf_files
                  /\ log' = Append(log,
                       [row |-> idx, built |-> built, render |-> "ok",
                        pdf |-> IF pdf_ok THEN "ok" ELSE "failed",
                        counted |-> IF pdf_ok THEN "success" ELSE "error"])
                  /\ UNCHANGED debug_files
    /\ resources' = dict_after_get(resources, KEY_BANNER, <<>>)
    /\ pagos_por_obra' =
         IF LiteralReturns(obras[sel[it + 1]])
         THEN dict_after_get(pagos_por_obra, obra_id_of(obras[sel[it + 1]]), <<>>)
         ELSE pagos_por_obra
    /\ UNCHANGED <<obras, pagos_df, filter_prefix, bf, obras_procesadas, sel>>
    /\ UNCHANGED calcVars
    /\ UNCHANGED mergeVars

\* the loop is over: the tally is logged and main returns 0
Finish ==
    /\ pc = "emit"
    /\ it = Len(sel)
    /\ pc' = "done"
    /\ UNCHANGED <<obras, pagos_df, filter_prefix, bf, obras_procesadas,
                   pagos_por_obra, sel, it, success_count, error_count, html,
                   debug_files, pdf_files, log>>
    /\ UNCHANGED resources
    /\ UNCHANGED calcVars
    /\ UNCHANGED mergeVars

\* KeyboardInterrupt: main's "except KeyboardInterrupt" (return 1)
Interrupt ==
    /\ pc \in {"backfill", "emit"}
    /\ pc' = "interrupted"
    /\ UNCHANGED <<obras, pagos_df, filter_prefix, bf, obras_procesadas,
                   pagos_por_obra, sel, it, success_count, error_count, html,
                   debug_files, pdf_files, log>>
    /\ UNCHANGED resources
    /\ UNCHANGED calcVars
    /\ UNCHANGED mergeVars

Next ==
    \/ Backfill
    \/ StartGenerate
    \/ Emit
    \/ Finish
    \/ Interrupt

Spec == Init /\ [][Next]_vars

-----------------------------------------------------------------------------
(* PDFGenerator(resources, output_dir, pagos_df): the index built at         *)
(* construction, over payments tables of every shape                         *)

T_1234 == <<"1", "2", "3", "4">>
T_EX_1 == <<"E", "X", "-", "1">>
T_T1 == <<"T", "1">>
T_2024_02_29 == <<"2", "0", "2", "4", "-", "0", "2", "-", "2", "9">>

\* a row of the payments sheet under the column names of the Excel file
IndexRow(id, trata, certificado, expediente, devengado, fecha) ==
    [c \in {"id_obra", "trata", "certificado_dga", "expediente",
            "importe_devengado", "fecha_pago"} |->
        CASE c = "id_obra" -> id
          [] c = "trata" -> trata
          [] c = "certificado_dga" -> certificado
          [] c = "expediente" -> expediente
          [] c = "importe_devengado" -> devengado
          [] c = "fecha_pago" -> fecha]

\* a paid row, a row accrued "--" without date, a row with nothing but an
\* unreadable date, for either project; a row dated in text; rows whose id is
\* null, empty or "--"
IndexRows ==
    UNION {{IndexRow(id, Str(<<" ">> \o T_T1 \o <<" ">>), Num(7 * Scale), Str(T_EX_1),
                     Num(1500 * Scale), Date(2024, 1, 15)),
            IndexRow(id, NaN, Str(T_1234), Str(<<" ">> \o T_EX_1), Str(DASHES), NaN),
            IndexRow(id, Str(T_T1), NaN, NaN, NaN, Str(<<"x">>))} : id \in ObraIds}
    \cup {IndexRow(Str(ID_OTRAS_1), Str(T_T1), Num(1234 * Scale), Str(T_EX_1),
                   Num(2500 * Scale), Str(T_2024_02_29))}
    \cup {IndexRow(id, Str(T_T1), Num(7 * Scale), Str(T_EX_1), Num(1500 * Scale),
                   Date(2024, 1, 15)) : id \in {NaN, Str(<<>>), Str(DASHES)}}

\* the name the sheet gives its project id column: the first key candidate,
\* a later one, or a name that is no candidate
KeyNames == {"id_obra", "obra_id", "nombre"}

\* the row with its project id column named key
RenameKey(r, key) ==
    [c \in (DOMAIN r \ {"id_obra"}) \cup {key} |->
        IF c = key THEN r["id_obra"] ELSE r[c]]

\* the tables of up to MaxPagos rows whose project id column is named key
IndexTables(key) ==
    UNION {[1..n -> {RenameKey(r, key) : r \in IndexRows}] : n \in 0..MaxPagos}

IndexInit ==
    /\ CalcIdle
    /\ pc = "construct"
    /\ obras = <<>>
    /\ \E key \in KeyNames : pagos_df \in IndexTables(key)
    /\ filter_prefix = "TODAS"
    /\ bf = 0
    /\ obras_procesadas = <<>>
    /\ pagos_por_obra = <<>>
    /\ resources = <<>>
    /\ sel = <<>>
    /\ it = 0
    /\ success_count = 0
    /\ error_count = 0
    /\ html = 0
    /\ debug_files = {}
    /\ pdf_files = {}
    /\ log = <<>>

\* PDFGenerator.__init__: self.pagos_por_obra = self._build_pagos_index(pagos_df)
Construct ==
    /\ pc = "construct"
    /\ pagos_por_obra' = build_pagos_index(pagos_df)
    /\ pc' = "constructed"
    /\ UNCHANGED <<obras, pagos_df, filter_prefix, bf, obras_procesadas, sel, it,
                   success_count, error_count, html, debug_files, pdf_files, log>>
    /\ UNCHANGED resources
    /\ UNCHANGED calcVars
    /\ UNCHANGED mergeVars

SpecIndex == IndexInit /\ [][Construct]_vars

-----------------------------------------------------------------------------
(* main(), step 2: the projects sheet combined with the collaborative-sheet  *)
(* feed                                                                      *)

ID_SHEET_ONLY == <<"Z", "-", "9">>

\* the projects sheet: rows of either project and a row without id
ExcelRows == {ObraRow(id, Num(10 * Scale), NaN) : id \in ObraIds \cup {NaN}}

ExcelTables == UNION {[1..n -> ExcelRows] : n \in 0..MaxRecords}

\* a row of the feed: the project id and the remaining-index quantity
SheetRow(id) ==
    [c \in {"id_obra", "Uvis_Restantes"} |->
        IF c = "id_obra" THEN id ELSE Num(5 * Scale)]

SheetIds == ObraIds \cup {Str(ID_SHEET_ONLY)}

\* the feed: not configured, or a table keyed by id_obra (no id twice)
SheetsFeeds ==
    {NoFeed}
    \cup UNION {{[configured |-> TRUE,
                  columns |-> {"id_obra", "Uvis_Restantes"},
                  rows |-> [k \in 1..n |-> SheetRow(ids[k])]] :
                    ids \in {f \in [1..n -> SheetIds] :
                                \A i, j \in 1..n : f[i] = f[j] => i = j}} :
                 n \in 0..MaxFeed}

\* pandas joins on equal keys; null keys match each other
KeyEq(a, b) == IF IsNa(a) \/ IsNa(b) THEN IsNa(a) /\ IsNa(b) ELSE a = b

\* the row of the primary table with the columns of a matching feed row
JoinRow(l, r) ==
    [c \in DOMAIN l \cup DOMAIN r |-> IF c \in DOMAIN l THEN l[c] ELSE r[c]]

\* the row of the primary table with the feed's columns null
NullRow(l, columns) ==
    [c \in DOMAIN l \cup columns |-> IF c \in DOMAIN l THEN l[c] ELSE NaN]

RECURSIVE JoinAll(_, _)
JoinAll(l, matches) ==
    IF matches = <<>> THEN <<>>
    ELSE <<JoinRow(l, Head(matches))>> \o JoinAll(l, Tail(matches))

MatchesOf(l, right) == SelectSeq(right, LAMBDA r : KeyEq(l["id_obra"], r["id_obra"]))

\* merge(how='inner'): rows of the primary table without match are dropped
RECURSIVE merge_inner(_, _, _)
merge_inner(left, right, columns) ==
    IF left = <<>> THEN <<>>
    ELSE JoinAll(Head(left), MatchesOf(Head(left), right))
         \o merge_inner(Tail(left), right, columns)

\* df_excel.merge(df_sheets, on='id_obra', how='left', suffixes=...)
RECURSIVE merge_left(_, _, _)
merge_left(left, right, columns) ==
    IF left = <<>> THEN <<>>
    ELSE (IF MatchesOf(Head(left), right) = <<>>
          THEN <<NullRow(Head(left), columns)>>
          ELSE JoinAll(Head(left), MatchesOf(Head(left), right)))
         \o merge_left(Tail(left), right, columns)

MergeInit ==
    /\ cFn = "none"
    /\ cA = None
    /\ cB = None
    /\ cRes = Ret(<<>>)
    /\ df_excel \in ExcelTables
    /\ df_sheets \in SheetsFeeds
    /\ pc = "merge"
    /\ obras = <<>>
    /\ pagos_df = <<>>
    /\ filter_prefix = "TODAS"
    /\ bf = 0
    /\ obras_procesadas = <<>>
    /\ pagos_por_obra = <<>>
    /\ resources = <<>>
    /\ sel = <<>>
    /\ it = 0
    /\ success_count = 0
    /\ error_count = 0
    /\ html = 0
    /\ debug_files = {}
    /\ pdf_files = {}
    /\ log = <<>>

\* "if df_sheets is not None: df_combined = df_excel.merge(...)
\*  else: df_combined = df_excel"; obras is df_combined.to_dict('records')
Merge ==
    /\ pc = "merge"
    /\ obras' = IF df_sheets.configured
                THEN merge_left(df_excel, df_sheets.rows, df_sheets.columns)
                ELSE df_excel
    /\ pc' = "merged"
    /\ UNCHANGED <<pagos_df, filter_prefix, bf, obras_procesadas, pagos_por_obra,
                   sel, it, success_count, error_count, html, debug_files,
                   pdf_files, log>>
    /\ UNCHANGED resources
    /\ UNCHANGED calcVars
    /\ UNCHANGED mergeVars

SpecMerge == MergeInit /\ [][Merge]_vars

-----------------------------------------------------------------------------
(* Specification of the formatters: each is applied once to a value *)

T_1_234 == <<"1", ".", "2", "3", "4">>

\* the operands of the derivations, texts with "%" and blanks, texts and
\* numbers of a thousand and more
FormatOperands ==
    Operands
    \cup {Str(<<"x", "%">>), Str(<<" ", "x">>), Str(<<"5", "%">>), Str(<<" ", "5", " ">>),
          Str(<<"1", ".", "2", "x">>), Str(T_1_234), Str(T_1_234_56),
          Str(<<"-">> \o T_1_234), Num(1234 * Scale), Num(-1234 * Scale),
          Num(1234 * Scale + Scale \div 2)}

FormatInit ==
    /\ MergeIdle
    /\ cFn = "none"
    /\ cA \in FormatOperands
    /\ cB = None
    /\ cRes = Ret(<<>>)
    /\ RunIdle

Call_formatear_moneda ==
    /\ cFn = "none"
    /\ cFn' = "formatear_moneda"
    /\ cRes' = Ret(formatear_moneda(cA))
    /\ UNCHANGED <<cA, cB>>
    /\ UNCHANGED runVars
    /\ UNCHANGED mergeVars

Call_formatear_moneda_sin_decimales ==
    /\ cFn = "none"
    /\ cFn' = "formatear_moneda_sin_decimales"
    /\ cRes' = Ret(formatear_moneda_sin_decimales(cA))
    /\ UNCHANGED <<cA, cB>>
    /\ UNCHANGED runVars
    /\ UNCHANGED mergeVars

Call_formatear_numero ==
    /\ cFn = "none"
    /\ cFn' = "formatear_numero"
    /\ cRes' = Ret(formatear_numero(cA))
    /\ UNCHANGED <<cA, cB>>
    /\ UNCHANGED runVars
    /\ UNCHANGED mergeVars

Call_formatear_integer ==
    /\ cFn = "none"
    /\ cFn' = "formatear_integer"
    /\ cRes' = Ret(formatear_integer(cA))
    /\ UNCHANGED <<cA, cB>>
    /\ UNCHANGED runVars
    /\ UNCHANGED mergeVars

Call_formatear_porcentaje ==
    /\ cFn = "none"
    /\ cFn' = "formatear_porcentaje"
    /\ cRes' = Ret(formatear_porcentaje(cA))
    /\ UNCHANGED <<cA, cB>>
    /\ UNCHANGED runVars
    /\ UNCHANGED mergeVars

Call_formatear_porcentaje_desde_decimal ==
    /\ cFn = "none"
    /\ cFn' = "formatear_porcentaje_desde_decimal"
    /\ cRes' = Ret(formatear_porcentaje_desde_decimal(cA))
    /\ UNCHANGED <<cA, cB>>
    /\ UNCHANGED runVars
    /\ UNCHANGED mergeVars

\* _numero_limpio(x) returns
CleanReturns(x) == x.t \in {"num", "str"} /\ numero_limpio(x).ok

\* formatear_numero(_numero_limpio(x)) for an x that _numero_limpio takes
Call_formatear_numero_of_clean ==
    /\ cFn = "none"
    /\ CleanReturns(cA)
    /\ cFn' = "formatear_numero_of_clean"
    /\ cRes' = Ret(formatear_numero(Num(numero_limpio(cA).v)))
    /\ UNCHANGED <<cA, cB>>
    /\ UNCHANGED runVars
    /\ UNCHANGED mergeVars

FormatNext ==
    \/ Call_formatear_moneda
    \/ Call_formatear_moneda_sin_decimales
    \/ Call_formatear_numero
    \/ Call_formatear_integer
    \/ Call_formatear_porcentaje
    \/ Call_formatear_porcentaje_desde_decimal
    \/ Call_formatear_numero_of_clean

SpecFormat == FormatInit /\ [][FormatNext]_vars

-----------------------------------------------------------------------------
(* Specification of the column resolution: _pick_first_existing applied once *)
(* to the normalized column names of a sheet and the candidates of a field   *)

ColumnNames ==
    {"id_obra", "obra_id", "idobra", "expediente", "expediente_gdeba", "exp", "nombre"}

\* list(df.columns): up to MaxCols names, no name twice
ColumnLists ==
    UNION {{cols \in [1..n -> ColumnNames] : \A i, j \in 1..n : cols[i] = cols[j] => i = j} :
              n \in 0..MaxCols}

CandidateLists ==
    {KeyCandidates, TrataCandidates, NroCertCandidates, ExpedienteCandidates,
     DevengadoCandidates, FechaPagoCandidates}

PickInit ==
    /\ MergeIdle
    /\ cFn = "none"
    /\ cA \in ColumnLists
    /\ cB \in CandidateLists
    /\ cRes = NoColumn
    /\ RunIdle

Call_pick_first_existing ==
    /\ cFn = "none"
    /\ cFn' = "pick_first_existing"
    /\ cRes' = pick_first_existing({cA[k] : k \in 1..Len(cA)}, cB)
    /\ UNCHANGED <<cA, cB>>
    /\ UNCHANGED runVars
    /\ UNCHANGED mergeVars

SpecPick == PickInit /\ [][Call_pick_first_existing]_vars

-----------------------------------------------------------------------------
(* Specification of the file name: _generate_safe_filename applied once *)

NameAlphabet == UnsafeChars \cup {"A", "1", "."}

NameTexts == UNION {[1..k -> NameAlphabet] : k \in 0..MaxLen}

\* ids of every text of the alphabet, ids that end in ".pdf", and a null id
NameOperands ==
    {Str(s) : s \in NameTexts}
    \cup {Str(<<"A">> \o DOT_PDF), Str(<<"A", "/">> \o DOT_PDF), Str(DOT_PDF),
          Str(ID_OTRAS_1), NaN}

NameInit ==
    /\ MergeIdle
    /\ cFn = "none"
    /\ cA \in NameOperands
    /\ cB = None
    /\ cRes = Ret(<<>>)
    /\ RunIdle

Call_generate_safe_filename ==
    /\ cFn = "none"
    /\ cFn' = "generate_safe_filename"
    /\ cRes' = Ret(generate_safe_filename(cA))
    /\ UNCHANGED <<cA, cB>>
    /\ UNCHANGED runVars
    /\ UNCHANGED mergeVars

SpecName == NameInit /\ [][Call_generate_safe_filename]_vars

-----------------------------------------------------------------------------
(* Vocabulary of the properties *)

\* an operand that is a number, or a text the locale cleaning rule turns into one
IsNumeric(x) == ~EstaVacio(x) /\ numero_limpio(x).ok

\* a non-empty operand the locale cleaning rule cannot turn into a number
FailsCleaning(x) == ~EstaVacio(x) /\ ~numero_limpio(x).ok

HasMinus(chars) == \E k \in 1..Len(chars) : chars[k] = "-"

\* the digits of a natural number with a "." before every group of three
RECURSIVE DotGrouped(_)
DotGrouped(n) ==
    IF n < 1000 THEN Digits(n)
    ELSE DotGrouped(n \div 1000)
         \o <<".", DigitChars[((n \div 100) % 10) + 1],
               DigitChars[((n \div 10) % 10) + 1], DigitChars[(n % 10) + 1]>>

\* a whole amount nearest to v / Scale (v >= 0), ties to the even one
NearestWhole(v) ==
    LET w == v \div Scale
        f == v % Scale
    IN  IF 2 * f > Scale \/ (2 * f = Scale /\ w % 2 = 1) THEN w + 1 ELSE w

\* max(0, total - delivered) of two numeric operands
RemainingOf(total, delivered) ==
    LET d == numero_limpio(total).v - numero_limpio(delivered).v
    IN  IF d < 0 THEN 0 ELSE d

\* "$ " followed by digits and grouping dots only
IsCurrencyText(chars) ==
    /\ Len(chars) >= 3
    /\ chars[1] = "$"
    /\ chars[2] = " "
    /\ \A k \in 3..Len(chars) : IsDigit(chars[k]) \/ chars[k] \in {".", "-"}
    /\ \E k \in 3..Len(chars) : IsDigit(chars[k])

\* a rate that is null, empty, unparseable, zero or negative
RateUnusable(x) == EstaVacio(x) \/ ~numero_limpio(x).ok \/ numero_limpio(x).v <= 0

\* the number a percentage text such as "54,50%" denotes, in 1/Scale units
PercentValue(chars) ==
    IF chars # <<>> /\ chars[Len(chars)] = "%"
    THEN numero_limpio(Str(SubSeq(chars, 1, Len(chars) - 1)))
    ELSE [ok |-> FALSE, v |-> 0]

\* 100 - p, p rescaled by 100 when it lies in [0,1], clamped to [0,100]
RemainingProgressOf(p) ==
    LET q == IF 0 <= p /\ p <= Scale THEN 100 * p ELSE p
        d == 100 * Scale - q
    IN  IF d < 0 THEN 0 ELSE IF d > 100 * Scale THEN 100 * Scale ELSE d

-----------------------------------------------------------------------------
(* Properties of the derivations (checked under SpecCalc) *)

\* C2: every derivation returns "--" and never raises, also for non-empty
\* operands that fail numeric cleaning.
C2_NeverRaises ==
    cFn # "none" =>
        /\ ~cRes.raised
        /\ (FailsCleaning(cA)
             \/ (cFn # "calculate_progreso_restante" /\ ~EstaVacio(cA) /\ FailsCleaning(cB)))
            => cRes.val = DASHES

\* C6: calcular_saldo_actualizado cleans a rate text with the locale rule:
\* quantity 1000 and rate "1.234,56" give "$ 1.234.560", and in general a
\* numeric quantity with a rate text of positive locale value gives a
\* currency text.
C6_LocaleRate ==
    cFn = "calcular_saldo_actualizado" =>
        /\ (cA = Num(1000 * Scale) /\ cB = Str(T_1_234_56))
            => cRes = Ret(<<"$", " ", "1", ".", "2", "3", "4", ".", "5", "6", "0">>)
        /\ (IsNumeric(cA) /\ IsStr(cB) /\ ~RateUnusable(cB))
            => (~cRes.raised /\ IsCurrencyText(cRes.val))

\* C7: the UVI-indexed balance is "--" whenever the quantity is empty or the
\* rate is null, empty, unparseable, zero or negative, and it is a currency
\* text only when the rate is strictly positive.
C7_BalanceNeedsPositiveRate ==
    cFn = "calcular_saldo_actualizado" =>
        /\ ~cRes.raised
        /\ (EstaVacio(cA) \/ RateUnusable(cB)) => cRes.val = DASHES
        /\ cRes.val # DASHES => (IsCurrencyText(cRes.val) /\ ~RateUnusable(cB))

\* C7 witness: a numeric quantity with rate zero has been answered with "--"
C7_Witness ==
    /\ cFn = "calcular_saldo_actualizado"
    /\ IsNumeric(cA)
    /\ cB = Num(0)
    /\ cRes = Ret(DASHES)

\* C8: for numeric total and delivered the remaining-units and
\* remaining-amount derivations return max(0, total - delivered) formatted
\* (never negative), and "--" if either operand is empty.
C8_RemainingIsClampedDifference ==
    cFn \in {"calculo_viviendas_restantes", "calcular_uvi_restantes",
              "calcular_monto_restante"} =>
        /\ (EstaVacio(cA) \/ EstaVacio(cB)) => cRes = Ret(DASHES)
        /\ (IsNumeric(cA) /\ IsNumeric(cB)) =>
              /\ ~cRes.raised
              /\ ~HasMinus(cRes.val)
              /\ cRes.val =
                    (IF cFn = "calcular_monto_restante" THEN <<"$", " ">> ELSE <<>>)
                    \o DotGrouped(NearestWhole(RemainingOf(cA, cB)))

\* C8 witness: more delivered than total, both numeric, answered with zero
C8_Witness ==
    /\ cFn = "calculo_viviendas_restantes"
    /\ IsNumeric(cA) /\ IsNumeric(cB)
    /\ numero_limpio(cA).v < numero_limpio(cB).v
    /\ cRes = Ret(<<"0">>)

\* C9: for numeric p, calculate_progreso_restante(p) is the percentage text of
\* 100 - p (p in [0,1] rescaled by 100 first) clamped to [0,100]; 45 and
\* 0.45 both give "55%"; a text and the number it denotes give the same result.
C9_RemainingProgress ==
    (cFn = "calculate_progreso_restante" /\ IsNumeric(cA)) =>
        /\ ~cRes.raised
        /\ PercentValue(cRes.val).ok
        /\ PercentValue(cRes.val).v >= 0
        /\ PercentValue(cRes.val).v <= 100 * Scale
        /\ LET want == RemainingProgressOf(numero_limpio(cA).v)
               got == PercentValue(cRes.val).v
           IN  2 * Abs(got - want) <= Scale \div 100
        /\ numero_limpio(cA).v \in {45 * Scale, 45 * (Scale \div 100)}
            => cRes.val = <<"5", "5", "%">>
        /\ IsStr(cA) => cRes = calculate_progreso_restante(Num(numero_limpio(cA).v))

\* C9 witness: the fraction 0.45 has been answered with "55%"
C9_Witness ==
    /\ cFn = "calculate_progreso_restante"
    /\ cA = Num(45 * (Scale \div 100))
    /\ cRes = Ret(<<"5", "5", "%">>)

\* C10: no derivation returns a negative amount, whatever the inputs
\* (a negative quantity with a positive rate included).
C10_NeverNegative ==
    (cFn # "none" /\ ~cRes.raised) => (cRes.val = DASHES \/ ~HasMinus(cRes.val))

-----------------------------------------------------------------------------
(* Properties of a batch run *)

\* the record of the k-th round of the emission loop
LoggedRow(k) == obras[log[k].row]

\* the project id of a record as _build_template_context looks it up
LookupId(row) == Strip(IdText(Get(row, "id_obra", Str(<<>>))))

\* the single-value fields of the context that depend on the payments
PaymentFields ==
    {"Nro", "Expediente", "Nro_Operatoria", "Contratista", "Estado_Pago",
     "Devengado", "Fecha_Pago"}

\* the units derivation of the context returns for this record
UnitsDerivationReturns(row) ==
    ~calculo_viviendas_restantes(Get(row, "viv_totales", Str(DASHES)),
                                 Get(row, "viv_entregadas", Str(DASHES))).raised

\* C1: for a record whose project id has no entry in the payment index (and
\* whose units derivation returns), _build_template_context returns a context
\* in which each of the seven payment fields is "--", and generate_all counts
\* the record as a success when the template and the PDF rendering succeed.
C1_NoPaymentsStillRenders ==
    \A k \in 1..Len(log) :
        (/\ LookupId(LoggedRow(k)) \notin DOMAIN pagos_por_obra
         /\ UnitsDerivationReturns(LoggedRow(k)))
        => /\ ~log[k].built.raised
           /\ \A f \in PaymentFields : log[k].built.ctx[f] = DASHES
           /\ (log[k].render = "ok" /\ log[k].pdf = "ok"
                    => log[k].counted = "success")

\* C3: only a user interrupt stops the batch run early: no failure of one
\* record ends the run before the emission, and a run that was not interrupted
\* ends with every selected record attempted and tallied.
C3_OnlyInterruptStopsRun ==
    /\ pc # "error"
    /\ (pc = "done" => /\ it = Len(sel)
                       /\ success_count + error_count = Len(sel))

\* C4: generate_all never propagates an exception out of its loop: the only
\* exception that reaches main comes from the backfill loop; whatever each
\* round does (context raises, template raises, PDF fails, success), the
\* selected records are attempted once each in order, the loop goes on after
\* a failing record, and success_count + error_count counts the rounds made,
\* which at the end is the number of selected records.
C4_LoopNeverPropagates ==
    /\ (pc = "error" => bf < Len(obras) /\ it = 0)
    /\ it <= Len(sel)
    /\ Len(log) = it
    /\ \A k \in 1..Len(log) : log[k].row = sel[k]
    /\ \A j, k \in 1..Len(sel) : sel[j] = sel[k] => j = k
    /\ success_count + error_count = it
    /\ success_count = Cardinality({k \in 1..Len(log) : log[k].counted = "success"})
    /\ (pc = "done" => it = Len(sel))

\* a finished run whose first round failed building the context and whose
\* second round rendered a PDF
C4_Witness ==
    /\ pc = "done"
    /\ Len(log) = 2
    /\ log[1].built.raised
    /\ log[1].counted = "error"
    /\ log[2].pdf = "ok"
    /\ log[2].counted = "success"
    /\ success_count = 1
    /\ error_count = 1

\* C5: whenever the emission of a record fails, a debug artifact is written
\* for that record and holds the markup rendered for that same record.
C5_DebugArtifactOfSameRecord ==
    \A k \in 1..Len(log) :
        log[k].counted = "error"
        => \E f \in debug_files : f.idx = log[k].row /\ f.content = log[k].row

-----------------------------------------------------------------------------
(* Properties of the payment index *)

\* the project id column of a payments table ("" when it has none)
KeyColumn(df) ==
    IF df = <<>> THEN NoColumn ELSE pick_first_existing(DOMAIN df[1], KeyCandidates)

\* the project id a row of the payments table carries: its trimmed id text,
\* <<>> when the id is null, empty or "--" or the table has no id column
CarriedId(df, k) ==
    IF KeyColumn(df) = NoColumn \/ ~IsStr(df[k][KeyColumn(df)]) THEN <<>>
    ELSE IF Strip(df[k][KeyColumn(df)].s) = DASHES THEN <<>>
    ELSE Strip(df[k][KeyColumn(df)].s)

\* the positions (from 0) of the rows carrying id, in table order
PositionsCarrying(df, id) ==
    LET ks == SelectSeq([k \in 1..Len(df) |-> k], LAMBDA k : CarriedId(df, k) = id)
    IN  [j \in 1..Len(ks) |-> ks[j] - 1]

\* the list the index holds for id, empty when it has no such key
IndexedUnder(id) ==
    IF id \in DOMAIN pagos_por_obra THEN pagos_por_obra[id] ELSE <<>>

SourceRow(pago) == pagos_df[pago._sort_idx + 1]

\* the cell of a source row under the first of the candidate columns
SourceCell(r, candidates) == Cell(r, pick_first_existing(DOMAIN r, candidates))

\* a payment date that reads as a date
DateParseable(x) == x.t = "date" \/ (IsStr(x) /\ ParseDateText(x.s).ok)

\* the status the payment rule gives a source row: paid when its date reads
\* as a date, else accrued unpaid when its accrued amount is not empty
\* ("--", "", null, NaN), else none
StatusOf(r) ==
    IF DateParseable(SourceCell(r, FechaPagoCandidates)) THEN Str(PAGADO)
    ELSE IF ~EstaVacio(SourceCell(r, DevengadoCandidates)) THEN Str(DEVENGADO_SIN_PAGAR)
    ELSE None

\* C12: the derived status of every indexed entry is "Pagado" if its payment
\* date is parseable, else "Devengado sin pagar" if an accrued amount exists
\* (an amount that is "--", "", null or NaN does not), else absent.
C12_DerivedStatus ==
    pc = "constructed"
    => \A id \in DOMAIN pagos_por_obra :
           \A j \in 1..Len(pagos_por_obra[id]) :
               pagos_por_obra[id][j].estado_calculado
                   = StatusOf(SourceRow(pagos_por_obra[id][j]))

\* a value stored in an index entry as the document shows it
Shown(v) == IF IsNa(v) THEN DASHES ELSE v.s

\* the first entry of the list the index holds for the record of round k
FirstPago(k) == pagos_por_obra[LookupId(LoggedRow(k))][1]

\* C13: when a project has a payment entry, the single-value payment fields of
\* its context (certificate number, accrued amount, payment date, derived
\* status) are the values stored in the first entry of its list in the index.
C13_FieldsFromFirstEntry ==
    \A k \in 1..Len(log) :
        (/\ LookupId(LoggedRow(k)) \in DOMAIN pagos_por_obra
         /\ ~log[k].built.raised)
        => /\ log[k].built.ctx["Nro"] = Shown(FirstPago(k).nro)
           /\ log[k].built.ctx["Devengado"] = Shown(FirstPago(k).devengado)
           /\ log[k].built.ctx["Fecha_Pago"] = Shown(FirstPago(k).fecha_pago)
           /\ log[k].built.ctx["Estado_Pago"] = Shown(FirstPago(k).estado_calculado)

-----------------------------------------------------------------------------
(* Properties of the reconciliation *)

\* the columns the feed adds to the primary table
SecondaryColumns == df_sheets.columns \ {"id_obra"}

Unmatched(l) == \A j \in 1..Len(df_sheets.rows) : ~KeyEq(l["id_obra"], df_sheets.rows[j]["id_obra"])

-----------------------------------------------------------------------------
(* Properties of the backfill and of the selection *)

\* the derived fields a sheet may carry itself
DerivedFields == {"Viviendas_Restantes", "Avance_Restante", "Total_UVI"}

\* C15: a derived field the source supplied reaches the processed record
\* with the value of the source
C15_BackfillKeepsSourceValues ==
    \A k \in 1..Len(obras_procesadas) :
        \A f \in DerivedFields :
            (f \in DOMAIN obras[k] /\ ~EstaVacio(obras[k][f]))
            => obras_procesadas[k][f] = obras[k][f]

\* the id cell names no project
PlaceholderId(x) == IsNa(x) \/ (IsStr(x) /\ Strip(x.s) \in {<<>>, DASHES})

-----------------------------------------------------------------------------
(* Properties of the formatters *)

FormatterNames ==
    {"formatear_moneda", "formatear_moneda_sin_decimales", "formatear_numero",
     "formatear_integer", "formatear_porcentaje", "formatear_porcentaje_desde_decimal"}

\* the text a formatter hands to float()
TextToParse(fn, x) ==
    IF fn \in {"formatear_porcentaje", "formatear_porcentaje_desde_decimal"}
    THEN CleanedPercent(x) ELSE Cleaned(x)

\* C17: a formatter given a value that is not empty and that float() rejects
\* returns the text of the value as it was given
C17_FallbackIsOriginalInput ==
    (/\ cFn \in FormatterNames
     /\ ~EstaVacio(cA)
     /\ ~PyFloat(TextToParse(cFn, cA)).ok)
    => ~cRes.raised /\ cRes.val = PyStr(cA)

\* C18, as stated: whatever number cleaning reads from x, cleaning the text
\* formatear_numero makes of that number reads the same number
C18_RoundTrip ==
    cFn = "formatear_numero_of_clean"
    => /\ numero_limpio(Str(cRes.val)).ok
       /\ numero_limpio(Str(cRes.val)).v = numero_limpio(cA).v

\* the number is whole
Whole(v) == v % Scale = 0

\* C18, amended: when cleaning reads a whole number from x, cleaning the text
\* formatear_numero makes of that number reads the same number
C18_RoundTripWhole ==
    (cFn = "formatear_numero_of_clean" /\ Whole(numero_limpio(cA).v))
    => /\ numero_limpio(Str(cRes.val)).ok
       /\ numero_limpio(Str(cRes.val)).v = numero_limpio(cA).v

\* "1.234" is cleaned to 1234, formatted "1.234", and cleaned to 1234 again
C18_Witness ==
    /\ cFn = "formatear_numero_of_clean"
    /\ cA = Str(T_1_234)
    /\ cRes.val = T_1_234
    /\ numero_limpio(Str(cRes.val)).v = 1234 * Scale

-----------------------------------------------------------------------------
(* Properties of the payment index: tables and rows that give no entry *)

\* the entries of the index, as (key, position in the list) pairs
IndexEntries ==
    UNION {{<<id, j>> : j \in 1..Len(pagos_por_obra[id])} : id \in DOMAIN pagos_por_obra}

\* C19: the index of an absent or empty table and of a table without project
\* id column is empty; a row whose project id is null, empty or "--" gives
\* the index no key and no entry: the keys are project ids, the entries are
\* as many as the rows that carry one, each built from such a row
C19_NothingFromPlaceholders ==
    pc = "constructed"
    => /\ (pagos_df = <<>> \/ KeyColumn(pagos_df) = NoColumn) => pagos_por_obra = <<>>
       /\ DOMAIN pagos_por_obra
            = {CarriedId(pagos_df, k) : k \in 1..Len(pagos_df)} \ {<<>>}
       /\ Cardinality(IndexEntries)
            = Cardinality({k \in 1..Len(pagos_df) : CarriedId(pagos_df, k) # <<>>})
       /\ \A e \in IndexEntries :
            ~PlaceholderId(SourceRow(pagos_por_obra[e[1]][e[2]])[KeyColumn(pagos_df)])

\* a table with a row of id "--", a row without id and a row of OTRAS-1
C19_Witness ==
    /\ pc = "constructed"
    /\ Len(pagos_df) = 3
    /\ KeyColumn(pagos_df) = "obra_id"
    /\ pagos_df[1]["obra_id"] = Str(DASHES)
    /\ pagos_df[2]["obra_id"] = NaN
    /\ pagos_df[3]["obra_id"] = Str(ID_OTRAS_1)
    /\ DOMAIN pagos_por_obra = {ID_OTRAS_1}
    /\ Len(pagos_por_obra[ID_OTRAS_1]) = 1

\* the text of a source cell without the blanks around it, None when null
Trimmed(x) == IF IsNa(x) THEN None ELSE Str(Strip(IdText(x)))

\* C20: the batch, the certificate number and the expedient reference of an
\* indexed entry are the trimmed text of the source cells
C20_IdentifiersPassThrough ==
    pc = "constructed"
    => \A e \in IndexEntries :
         /\ pagos_por_obra[e[1]][e[2]].trata
              = Trimmed(SourceCell(SourceRow(pagos_por_obra[e[1]][e[2]]), TrataCandidates))
         /\ pagos_por_obra[e[1]][e[2]].expediente
              = Trimmed(SourceCell(SourceRow(pagos_por_obra[e[1]][e[2]]),
                                   ExpedienteCandidates))
         /\ IsStr(SourceCell(SourceRow(pagos_por_obra[e[1]][e[2]]), NroCertCandidates))
            => pagos_por_obra[e[1]][e[2]].nro
                 = Trimmed(SourceCell(SourceRow(pagos_por_obra[e[1]][e[2]]),
                                      NroCertCandidates))

-----------------------------------------------------------------------------
(* Properties of the shared state of the generator *)

\* C21: after any number of rounds of the emission loop, the payment index
\* and the resource bundle are what they were when the generator was built:
\* the index of the payments table and the bundle main() prepared
C21_SharedStateReadOnly ==
    Len(log) > 0
    => /\ pagos_por_obra = build_pagos_index(pagos_df)
       /\ resources = prepare_resources(obras)

\* two rounds, a success and a failure, one of them for a project the index
\* has no payments of
C21_Witness ==
    /\ Len(log) = 2
    /\ log[1].counted = "success"
    /\ log[2].counted = "error"
    /\ LiteralReturns(LoggedRow(2))
    /\ LookupId(LoggedRow(2)) \notin DOMAIN pagos_por_obra
    /\ DOMAIN pagos_por_obra # {}
    /\ DOMAIN resources # DOMAIN BaseResources

-----------------------------------------------------------------------------
(* Properties of the editorial feed *)

FeedFails == [raised |-> TRUE, exc |-> "ConnectionError", items |-> <<>>]
FeedAnswers == [raised |-> FALSE, exc |-> "", items |-> <<"noticia">>]

\* the context of a record when the feed fails, and when it answers
BuiltWhenFeedFails(row) == build_template_context(row, FeedFails, pagos_por_obra)
BuiltWhenFeedAnswers(row) == build_template_context(row, FeedAnswers, pagos_por_obra)

\* the outcomes of the assembler for one record, failing (f) and answering
\* (a) feed, and the entry logged for its round
FeedCaught(f, a, entry) ==
    /\ f.raised = a.raised
    /\ f.exc = a.exc
    /\ ~f.raised
       => /\ f.ctx["noticias"] = <<>>
          /\ \A key \in ContextKeys \ {"noticias"} : f.ctx[key] = a.ctx[key]
    /\ entry.built \in {f, a}
    /\ ~entry.built.raised => entry.render # "not reached"

\* C22: for the record of the round just finished, a failing feed leaves the
\* outcome of the assembler what it is when the feed answers, but for
\* noticias, which is the empty list; and a record whose context was built
\* goes on to rendering
C22_FeedFailureIsCaught ==
    Len(log) > 0
    => FeedCaught(BuiltWhenFeedFails(LoggedRow(Len(log))),
                  BuiltWhenFeedAnswers(LoggedRow(Len(log))),
                  log[Len(log)])

\* a round whose feed failed: the context has no news and was rendered
C22_Witness ==
    /\ Len(log) = 1
    /\ ~log[1].built.raised
    /\ log[1].built = BuiltWhenFeedFails(LoggedRow(1))
    /\ log[1].built.ctx["noticias"] = <<>>
    /\ log[1].render = "ok"
    /\ log[1].counted = "success"

-----------------------------------------------------------------------------
(* Properties of the emission filter *)

\* the id of row k of the reconciled table starts with the prefix of the mode
InMode(k, prefix) ==
    \/ prefix = "TODAS"
    \/ /\ prefix = "OTRAS"
       /\ IsStr(obras[k]["id_obra"])
       /\ Len(obras[k]["id_obra"].s) >= 6
       /\ SubSeq(obras[k]["id_obra"].s, 1, 6) = <<"O", "T", "R", "A", "S", "-">>
    \/ /\ prefix = "CONVE"
       /\ IsStr(obras[k]["id_obra"])
       /\ Len(obras[k]["id_obra"].s) >= 6
       /\ SubSeq(obras[k]["id_obra"].s, 1, 6) = <<"C", "O", "N", "V", "E", "-">>

\* C23: once the backfill is over, generate_all has a selection (the filter
\* returns), the selection holds exactly the rows of the mode, and it lists
\* them in the order of the table, each once
C23_FilterModes ==
    (pc \notin {"backfill", "error", "interrupted"} \/ Len(log) > 0)
    => /\ pc # "filter_error"
       /\ {sel[j] : j \in 1..Len(sel)}
            = {k \in 1..Len(obras) : InMode(k, filter_prefix)}
       /\ \A i, j \in 1..Len(sel) : i < j => sel[i] < sel[j]

-----------------------------------------------------------------------------
(* Properties of the file name *)

INFORME_ == <<"i", "n", "f", "o", "r", "m", "e", "_">>

\* the characters a file name must not hold
Unsafe == {"\\", "/", "*", "?", ":", "\"", "<", ">", "|"}

\* the text of an id with the unsafe characters left out
SafePart(x) == SelectSeq(IdText(x), LAMBDA c : c \notin Unsafe)

HasSuffixPdf(chars) ==
    Len(chars) >= 4 /\ SubSeq(chars, Len(chars) - 3, Len(chars)) = <<".", "p", "d", "f">>

\* C24: the name made for a project id starts with "informe_", ends with
\* ".pdf" and holds no unsafe character; it is "informe_", the id without its
\* unsafe characters, and ".pdf" (which is not added a second time)
C24_SafeFileName ==
    cFn = "generate_safe_filename"
    => /\ Len(cRes.val) >= 12
       /\ SubSeq(cRes.val, 1, 8) = INFORME_
       /\ HasSuffixPdf(cRes.val)
       /\ \A i \in 1..Len(cRes.val) : cRes.val[i] \notin Unsafe
       /\ cRes.val = IF HasSuffixPdf(SafePart(cA)) THEN INFORME_ \o SafePart(cA)
                     ELSE INFORME_ \o SafePart(cA) \o <<".", "p", "d", "f">>

\* the id "A/1" gives "informe_A1.pdf"
C24_Witness ==
    /\ cFn = "generate_safe_filename"
    /\ cA = Str(<<"A", "/", "1">>)
    /\ cRes.val = INFORME_ \o <<"A", "1", ".", "p", "d", "f">>

-----------------------------------------------------------------------------
(* Properties of the files of a batch *)

\* the file of round k was written
PdfWritten(k) == log[k].pdf = "ok"

\* C30: the PDF written in the round just finished has another name than
\* every PDF written before for a record of another project id
C30_DistinctIdsDistinctFiles ==
    \A j \in 1..(Len(log) - 1) :
        (/\ PdfWritten(j)
         /\ PdfWritten(Len(log))
         /\ LoggedRow(j)["id_obra"] # LoggedRow(Len(log))["id_obra"])
        => generate_safe_filename(LoggedRow(j)["id_obra"])
              # generate_safe_filename(LoggedRow(Len(log))["id_obra"])

-----------------------------------------------------------------------------
(* Properties of the column resolution *)

\* the positions, in the candidate list, of the candidates that are columns
PresentCandidates ==
    {k \in 1..Len(cB) : \E c \in 1..Len(cA) : cA[c] = cB[k]}

\* C25: the column resolved for a field is the candidate that comes first in
\* the candidate list among those present in the sheet, wherever the columns
\* stand in the sheet; it is no column when no candidate is present
C25_FirstCandidateWins ==
    cFn = "pick_first_existing"
    => IF PresentCandidates = {} THEN cRes = NoColumn
       ELSE /\ \E k \in PresentCandidates : cRes = cB[k]
            /\ \A k \in PresentCandidates :
                 \A j \in 1..Len(cB) : cB[j] = cRes => j <= k

\* the sheet has obra_id before id_obra; the key resolved is id_obra, the
\* first candidate
C25_Witness ==
    /\ cFn = "pick_first_existing"
    /\ cB = KeyCandidates
    /\ cA = <<"obra_id", "nombre", "id_obra">>
    /\ cRes = "id_obra"

-----------------------------------------------------------------------------
(* Properties of the context: the remaining amount *)

\* the remaining amount of a record
RemainingAmountOf(row) ==
    calcular_monto_restante(Get(row, "monto_actualizado", Str(DASHES)),
                            Get(row, "monto_pagado", Str(DASHES))).val

\* C26: the context built in the round just finished has the key
\* Monto_Restante_Actualizado, and under it the remaining amount of the record
C26_HasRemainingAmountKey ==
    (Len(log) > 0 /\ ~log[Len(log)].built.raised)
    => /\ "Monto_Restante_Actualizado" \in DOMAIN log[Len(log)].built.ctx
       /\ log[Len(log)].built.ctx["Monto_Restante_Actualizado"]
            = RemainingAmountOf(LoggedRow(Len(log)))

-----------------------------------------------------------------------------
(* ExcelReader: the sheets of the workbook (excel_reader.py), and the
   specification of main() reading both tables and building the index *)

\* most sheets of a workbook
MaxSheets == 2

\* str.lower() over the letters sheet names are written with
LowerChar(c) ==
    CASE c = "P" -> "p" [] c = "A" -> "a" [] c = "G" -> "g" [] c = "O" -> "o"
      [] c = "S" -> "s" [] c = "B" -> "b" [] c = "R" -> "r" [] c = "H" -> "h"
      [] OTHER -> c

Lower(chars) == [k \in 1..Len(chars) |-> LowerChar(chars[k])]

\* str(n).strip().lower()
SheetKey(n) == Lower(Strip(n))

T_obras == <<"o", "b", "r", "a", "s">>
T_pagos == <<"p", "a", "g", "o", "s">>

SheetNames ==
    {T_obras, <<"O", "b", "r", "a", "s", " ">>, T_pagos,
     <<" ", "P", "A", "G", "O", "S">>, <<"H", "o", "j", "a", "1">>}

\* what a sheet holds: nothing, a projects table, a payments table
SheetTables ==
    {<<>>,
     <<ObraRow(Str(ID_OTRAS_1), Num(10 * Scale), NaN)>>,
     <<PagoRow(Str(ID_OTRAS_1), Num(7 * Scale), Num(1500 * Scale), Date(2024, 1, 15))>>}

\* a workbook has at least one sheet and no sheet name twice
Workbooks ==
    UNION {{wb \in [1..n -> [name : SheetNames, table : SheetTables]] :
                \A i, j \in 1..n : wb[i].name = wb[j].name => i = j} :
              n \in 1..MaxSheets}

\* name_map = {str(n).strip().lower(): n for n in xls.sheet_names}: of the
\* sheets with one key the last is kept
NameMapHas(wb, key) == \E k \in 1..Len(wb) : SheetKey(wb[k].name) = key

NameMapGet(wb, key) ==
    wb[CHOOSE k \in 1..Len(wb) :
          /\ SheetKey(wb[k].name) = key
          /\ \A j \in (k + 1)..Len(wb) : SheetKey(wb[j].name) # key].name

\* ExcelReader._resolve_sheet_name: the first preferred name the workbook
\* has, else the sheet at fallback_index, else the first sheet
resolve_sheet_name(wb, preferred_names, fallback_index) ==
    IF \E p \in 1..Len(preferred_names) : NameMapHas(wb, SheetKey(preferred_names[p]))
    THEN NameMapGet(wb, SheetKey(preferred_names[
             CHOOSE p \in 1..Len(preferred_names) :
                 /\ NameMapHas(wb, SheetKey(preferred_names[p]))
                 /\ \A q \in 1..(p - 1) :
                        ~NameMapHas(wb, SheetKey(preferred_names[q]))]))
    ELSE IF 0 <= fallback_index /\ fallback_index < Len(wb)
    THEN wb[fallback_index + 1].name
    ELSE wb[1].name

\* pd.read_excel(file_path, sheet_name=sheet): the table of the sheet so named
read_sheet(wb, sheet) ==
    IF \E k \in 1..Len(wb) : wb[k].name = sheet
    THEN wb[CHOOSE k \in 1..Len(wb) : wb[k].name = sheet].table
    ELSE <<>>

\* ExcelReader.read_obras
read_obras(wb) == read_sheet(wb, resolve_sheet_name(wb, <<T_obras>>, 0))

\* ExcelReader.read_pagos
read_pagos(wb) == read_sheet(wb, resolve_sheet_name(wb, <<T_pagos>>, 1))

\* cA holds the workbook, cB the sheet read for the projects and cRes the
\* sheet read for the payments
ReadInit ==
    /\ cFn = "none"
    /\ cA \in Workbooks
    /\ cB = None
    /\ cRes = None
    /\ MergeIdle
    /\ pc = "read"
    /\ obras = <<>>
    /\ pagos_df = <<>>
    /\ filter_prefix = "TODAS"
    /\ bf = 0
    /\ obras_procesadas = <<>>
    /\ pagos_por_obra = <<>>
    /\ resources = <<>>
    /\ sel = <<>>
    /\ it = 0
    /\ success_count = 0
    /\ error_count = 0
    /\ html = 0
    /\ debug_files = {}
    /\ pdf_files = {}
    /\ log = <<>>

\* main(): df_excel = ExcelReader.read_excel(args.excel);
\* df_pagos = ExcelReader.read_pagos(args.excel)
ReadWorkbook ==
    /\ pc = "read"
    /\ cFn' = "read_pagos"
    /\ cB' = resolve_sheet_name(cA, <<T_obras>>, 0)
    /\ cRes' = resolve_sheet_name(cA, <<T_pagos>>, 1)
    /\ df_excel' = read_obras(cA)
    /\ pagos_df' = read_pagos(cA)
    /\ pc' = "construct"
    /\ UNCHANGED <<cA, df_sheets, obras, filter_prefix, bf, obras_procesadas, pagos_por_obra, resources,
                   sel, it, success_count, error_count, html, debug_files, pdf_files,
                   log>>

SpecRead == ReadInit /\ [][ReadWorkbook \/ Construct]_vars

-----------------------------------------------------------------------------
(* The two readers of the daily rate (calculations.py), applied once each to
   one answer of SheetsReader.obtener_valor_uvi_api *)

\* the answers of the feed: an exception, null, or a text
RateAnswers ==
    {[raised |-> TRUE, val |-> None], [raised |-> FALSE, val |-> None]}
    \cup {[raised |-> FALSE, val |-> Str(s)] :
              s \in Texts \cup {T_1_234_56, T_1234_56, T_45_5}}

\* Optional[float]: the number float() reads, None on its ValueError
FloatOrNone(f) == IF f.ok THEN Num(f.v) ELSE None

\* CalculosUVI.obtener_valor_uvi_diario
CalculosUVI_obtener_valor_uvi_diario(answer) ==
    IF answer.raised THEN None
    ELSE IF answer.val = None \/ answer.val.s = <<>> THEN None
    ELSE FloatOrNone(PyFloatText(Replace(answer.val.s, ",", <<".">>)))

\* CalculosSaldoObra.obtener_valor_uvi_diario
CalculosSaldoObra_obtener_valor_uvi_diario(answer) ==
    IF answer.raised THEN None
    ELSE IF answer.val = None \/ answer.val.s = <<>> THEN None
    ELSE FloatOrNone(PyFloatText(LimpiarSeparadores(answer.val.s)))

\* cA holds the answer of the feed, cB what CalculosUVI returned and cRes
\* what CalculosSaldoObra returned; cFn tells which of them have run
RateInit ==
    /\ MergeIdle
    /\ cFn = "none"
    /\ cA \in RateAnswers
    /\ cB = None
    /\ cRes = None
    /\ RunIdle

Call_CalculosUVI_obtener_valor_uvi_diario ==
    /\ cFn \in {"none", "CalculosSaldoObra"}
    /\ cFn' = IF cFn = "none" THEN "CalculosUVI" ELSE "both"
    /\ cB' = CalculosUVI_obtener_valor_uvi_diario(cA)
    /\ UNCHANGED <<cA, cRes>>
    /\ UNCHANGED runVars
    /\ UNCHANGED mergeVars

Call_CalculosSaldoObra_obtener_valor_uvi_diario ==
    /\ cFn \in {"none", "CalculosUVI"}
    /\ cFn' = IF cFn = "none" THEN "CalculosSaldoObra" ELSE "both"
    /\ cRes' = CalculosSaldoObra_obtener_valor_uvi_diario(cA)
    /\ UNCHANGED <<cA, cB>>
    /\ UNCHANGED runVars
    /\ UNCHANGED mergeVars

RateNext ==
    \/ Call_CalculosUVI_obtener_valor_uvi_diario
    \/ Call_CalculosSaldoObra_obtener_valor_uvi_diario

SpecRate == RateInit /\ [][RateNext]_vars

-----------------------------------------------------------------------------
(* Properties of the records handed to the assembler *)

\* C27: the record the assembler received in the round just finished carries
\* every field of the backfilled record of the same row, with its value
C27_EmitsBackfilledRecords ==
    Len(log) > 0
    => \A f \in DOMAIN obras_procesadas[log[Len(log)].row] :
           /\ f \in DOMAIN LoggedRow(Len(log))
           /\ LoggedRow(Len(log))[f] = obras_procesadas[log[Len(log)].row][f]

\* C28: a workbook of fewer than two sheets, none of them named "pagos", has
\* no payments table: the sheet read for the payments is not the sheet read
\* for the projects, and the index built from it is empty
NoPagosTable(wb) == Len(wb) < 2 /\ ~NameMapHas(wb, T_pagos)

C28_NoPaymentsSheetIsAbsent ==
    (pc \in {"construct", "constructed"} /\ cFn = "read_pagos" /\ NoPagosTable(cA))
    => /\ cRes # cB
       /\ pc = "constructed" => pagos_por_obra = <<>>

\* C29: once both readers of the daily rate have run on one answer of the
\* feed, they hold the same result: the same number, or null both
C29_RateParsersAgree == cFn = "both" => cB = cRes

====
